---- MODULE Spec2Model ----
(***************************************************************************)
(* Verification model of hand_tracking_sdk: the line parser (parser.py)    *)
(* and the per-side frame assembler (frame.py).                            *)
(*                                                                         *)
(* Python's Optional values are modelled as sequences of length 0 or 1:    *)
(* None is <<>> and a present value v is <<v>>, so that the code's         *)
(* comparisons `x is None`, `a != b` keep their meaning.                   *)
(***************************************************************************)
EXTENDS Integers, Sequences, FiniteSets, TLC

VARIABLES
    inputs,            \* the values the callers of this run pass (fixed at Init)
    include_wall_time, \* HandFrameAssembler._include_wall_time
    state,             \* HandFrameAssembler._state: side -> _SideAssemblyState
    call,              \* the last call made on the assembler, with its resolved inputs
    ret,               \* what the last call returned: None or a HandFrame
    raised,            \* the exception the last call raised ("" when it returned)
    frames,            \* per side: sequence ids of the frames emitted since the last reset of the side
    accepted,          \* per side: the packet kinds stored by a push since the last reset of the side
    solo,              \* per side: state of an assembler that is given that side's calls only
    solo_ret,          \* what the solo assembler of the last call's side returned
    twin,              \* for a push_line: what push_packet gives for the parsed packet
    prior,             \* per side: None, or the timestamps of the frame emitted last since the last reset of the side
    given,             \* the parts a line for parse_line is written from
    text,              \* the line passed to parse_line
    outcome,           \* None, or Some(what parse_line(text) gives)
    plain_outcome,     \* None, or Some(what parse_line gives for the undecorated line of given)
    config,            \* HTSClient._config
    stats,             \* HTSClient._stats
    pc,                \* where iter_events stands: "idle", "loop", "packet", "done", "raised"
    pending,           \* the packet of the line in progress while suspended at `yield packet`
    events,            \* the events iter_events has yielded, each with the number of its line
    pulled,            \* the verdicts on the lines pulled from the receiver, in order
    clock,             \* the last value monotonic_ns() gave
    ref,               \* assembler state and events of the same client on the surviving lines only
    mark,              \* where the last reset_stats was called: lines pulled and events yielded by then
    runner,            \* the call of HTSClient.run in progress: its arguments, position and outcome
    made,              \* the construction of an HTSClientConfig: its arguments and what it raised
    rx,                \* a line receiver of transport.py: its fields
    net,               \* the receiver's surroundings: peers, and the bytes they sent and will send
    log,               \* the calls made on the receiver and on its iterator, with their outcomes
    trip,              \* a value, its to_dict and the from_dict of that
    conv,              \* None, or a frame and what convert.py makes of it
    viz                \* None, or a RerunVisualizer: its fields and what it logged

\* the variables of a HandFrameAssembler and of its callers, without _state and
\* _include_wall_time, which the assembler of an HTSClient has too
callerVars == <<inputs, call, ret, raised, frames, accepted, solo, solo_ret, twin, prior>>
assemblerVars == <<include_wall_time, state, callerVars>>
parserVars == <<given, text, outcome, plain_outcome>>
clientVars == <<config, stats, pc, pending, events, pulled, clock, ref, mark, runner, made>>
transportVars == <<rx, net, log>>
toolVars == <<trip, conv, viz>>
vars == <<assemblerVars, parserVars, clientVars, transportVars, toolVars>>

----------------------------------------------------------------------------
(* Bounds of the model *)

\* callers pass the timestamps 0..MaxTs
MaxTs == 1

----------------------------------------------------------------------------
(* Optional values *)

None == <<>>
Some(v) == <<v>>
IsNone(x) == x = <<>>
Val(x) == x[1]

Max(a, b) == IF a >= b THEN a ELSE b
Min(a, b) == IF a <= b THEN a ELSE b

----------------------------------------------------------------------------
(* constants.py, models.py *)

WRIST_VALUE_COUNT == 7
LANDMARK_COUNT == 21
LANDMARK_VALUE_COUNT == LANDMARK_COUNT * 3

LEFT == "Left"
RIGHT == "Right"
HandSide == {LEFT, RIGHT}

WRIST == "wrist"
LANDMARKS == "landmarks"
PacketType == {WRIST, LANDMARKS}

\* WristPose(x, y, z, qx, qy, qz, qw)
WristPose(v) ==
    [x |-> v[1], y |-> v[2], z |-> v[3], qx |-> v[4], qy |-> v[5], qz |-> v[6], qw |-> v[7]]

\* HandLandmarks(points)
HandLandmarks(points) == [points |-> points]

WristPacket(side, data) ==
    [type |-> "WristPacket", side |-> side, kind |-> WRIST, data |-> data]

LandmarksPacket(side, data) ==
    [type |-> "LandmarksPacket", side |-> side, kind |-> LANDMARKS, data |-> data]

----------------------------------------------------------------------------
(* Text: a str is a sequence of one-character strings.  The operators      *)
(* below are the str methods parser.py uses.                               *)

Chars(s) == {s[i] : i \in 1..Len(s)}

\* str.isspace() of one character (the ASCII whitespace characters)
IsSpace(c) == c \in {" ", "\t", "\n", "\r", "\f"}

Digits == <<"0", "1", "2", "3", "4", "5", "6", "7", "8", "9">>
IsDigit(c) == \E d \in 1..10 : Digits[d] = c
DigitValue(c) == (CHOOSE d \in 1..10 : Digits[d] = c) - 1

UpperLetters ==
    <<"A", "B", "C", "D", "E", "F", "G", "H", "I", "J", "K", "L", "M",
      "N", "O", "P", "Q", "R", "S", "T", "U", "V", "W", "X", "Y", "Z">>
LowerLetters ==
    <<"a", "b", "c", "d", "e", "f", "g", "h", "i", "j", "k", "l", "m",
      "n", "o", "p", "q", "r", "s", "t", "u", "v", "w", "x", "y", "z">>

\* str.lower()
LowerChar(c) ==
    IF \E i \in 1..26 : UpperLetters[i] = c
    THEN LowerLetters[CHOOSE i \in 1..26 : UpperLetters[i] = c]
    ELSE c
lower(s) == [i \in 1..Len(s) |-> LowerChar(s[i])]

\* str.strip()
RECURSIVE lstrip(_)
lstrip(s) == IF s # <<>> /\ IsSpace(Head(s)) THEN lstrip(Tail(s)) ELSE s
RECURSIVE rstrip(_)
rstrip(s) == IF s # <<>> /\ IsSpace(s[Len(s)]) THEN rstrip(SubSeq(s, 1, Len(s) - 1)) ELSE s
strip(s) == rstrip(lstrip(s))

\* the positions of the character c in s, in increasing order
Positions(s, c) == SelectSeq([i \in 1..Len(s) |-> i], LAMBDA i : s[i] = c)

\* str.find(c) + 1: the position of the first c in s, 0 when there is none
FirstOf(positions) == IF positions = <<>> THEN 0 ELSE positions[1]
Find(s, c) == FirstOf(Positions(s, c))

\* str.partition(c): <<head, sep, tail>>, i the position of the first c
PartitionAt(s, c, i) ==
    IF i = 0
    THEN <<s, <<>>, <<>>>>
    ELSE <<SubSeq(s, 1, i - 1), <<c>>, SubSeq(s, i + 1, Len(s))>>
partition(s, c) == PartitionAt(s, c, Find(s, c))

\* str.split(c): the chunks between the occurrences of c, empty ones included
SplitAt(s, cuts) ==
    [k \in 1..(Len(cuts) - 1) |-> SubSeq(s, cuts[k] + 1, cuts[k + 1] - 1)]
split_on(s, c) == SplitAt(s, <<0>> \o Positions(s, c) \o <<Len(s) + 1>>)

\* the length of the leading run of non-whitespace characters of s
RECURSIVE WordLen(_)
WordLen(s) == IF s = <<>> \/ IsSpace(Head(s)) THEN 0 ELSE 1 + WordLen(Tail(s))

\* str.split(): the maximal runs of non-whitespace characters
RECURSIVE split_ws(_)
split_ws(s) ==
    LET t == lstrip(s)
        n == WordLen(t)
    IN  IF t = <<>>
        THEN <<>>
        ELSE <<SubSeq(t, 1, n)>> \o split_ws(SubSeq(t, n + 1, Len(t)))

----------------------------------------------------------------------------
(* float(str).  A finite value is <<"num", m, e>>, standing for m * 10^e    *)
(* with m not a multiple of 10 (0 is <<"num", 0, 0>>); the short decimal    *)
(* literals of the model denote distinct doubles exactly when these         *)
(* triples differ.  Infinities are <<"inf", +-1, 0>> and NaN <<"nan", 0, 0>>.*)

\* digits with single underscores between them (Python's digitpart)
IsDigitPart(s) ==
    /\ s # <<>>
    /\ IsDigit(s[1])
    /\ IsDigit(s[Len(s)])
    /\ \A i \in 1..Len(s) : IsDigit(s[i]) \/ s[i] = "_"
    /\ \A i \in 1..(Len(s) - 1) : ~(s[i] = "_" /\ s[i + 1] = "_")

RECURSIVE DigitsValue(_, _)
DigitsValue(s, acc) ==
    IF s = <<>> THEN acc
    ELSE IF Head(s) = "_" THEN DigitsValue(Tail(s), acc)
    ELSE DigitsValue(Tail(s), 10 * acc + DigitValue(Head(s)))

CountDigits(s) == Cardinality({i \in 1..Len(s) : IsDigit(s[i])})

RECURSIVE Normalize(_, _)
Normalize(m, e) ==
    IF m = 0 THEN <<"num", 0, 0>>
    ELSE IF m % 10 = 0 THEN Normalize(m \div 10, e + 1)
    ELSE <<"num", m, e>>

\* a float value for an integer n
Num(n) == IF n < 0 THEN <<"num", -(Normalize(-n, 0)[2]), Normalize(-n, 0)[3]>> ELSE Normalize(n, 0)

\* the value of the decimal literal intp.fracp * 10^expVal with sign sgn
DecimalValue(sgn, intp, fracp, expVal) ==
    LET n == Normalize(DigitsValue(intp \o fracp, 0), expVal - CountDigits(fracp))
    IN  <<"num", sgn * n[2], n[3]>>

\* the mantissa of a decimal literal: digits, digits., digits.digits or .digits
MantissaOk(intp, fracp, dotted) ==
    IF ~dotted
    THEN IsDigitPart(intp)
    ELSE /\ intp = <<>> \/ IsDigitPart(intp)
         /\ fracp = <<>> \/ IsDigitPart(fracp)
         /\ ~(intp = <<>> /\ fracp = <<>>)

FloatMantissa(sgn, mant, dot, expVal) ==
    LET intp == IF dot = 0 THEN mant ELSE SubSeq(mant, 1, dot - 1)
        fracp == IF dot = 0 THEN <<>> ELSE SubSeq(mant, dot + 1, Len(mant))
    IN  IF MantissaOk(intp, fracp, dot # 0)
        THEN Some(DecimalValue(sgn, intp, fracp, expVal))
        ELSE None

\* the exponent of a decimal literal: None when malformed, else Some(value)
FloatExponent(exp) ==
    LET expSigned == exp # <<>> /\ exp[1] \in {"+", "-"}
        expDigits == IF expSigned THEN Tail(exp) ELSE exp
    IN  IF ~IsDigitPart(expDigits) THEN None
        ELSE IF expSigned /\ exp[1] = "-" THEN Some(-DigitsValue(expDigits, 0))
        ELSE Some(DigitsValue(expDigits, 0))

\* a decimal literal whose exponent marker is at position le (0: no exponent)
FloatDecimal(sgn, body, le) ==
    IF le = 0
    THEN FloatMantissa(sgn, body, Find(body, "."), 0)
    ELSE LET expVal == FloatExponent(SubSeq(body, le + 1, Len(body)))
             mant == SubSeq(body, 1, le - 1)
         IN  IF IsNone(expVal) THEN None
             ELSE FloatMantissa(sgn, mant, Find(mant, "."), Val(expVal))

FloatUnsigned(sgn, body, word) ==
    IF word \in {<<"i", "n", "f">>, <<"i", "n", "f", "i", "n", "i", "t", "y">>}
    THEN Some(<<"inf", sgn, 0>>)
    ELSE IF word = <<"n", "a", "n">>
    THEN Some(<<"nan", 0, 0>>)
    ELSE FloatDecimal(sgn, body, Find(word, "e"))

FloatStripped(t) ==
    IF t # <<>> /\ t[1] \in {"+", "-"}
    THEN FloatUnsigned(IF t[1] = "-" THEN -1 ELSE 1, Tail(t), lower(Tail(t)))
    ELSE FloatUnsigned(1, t, lower(t))

\* float(s): None when Python raises ValueError, else Some(value)
float(s) == FloatStripped(strip(s))

----------------------------------------------------------------------------
(* parser.py.  A result is [error, packet]: error is "" and packet is       *)
(* Some(packet) when the line parses, else error names the ParseError       *)
(* raised and packet is None.                                               *)

Parsed(packet) == [error |-> "", packet |-> Some(packet)]
ParseError(what) == [error |-> what, packet |-> None]

S_Left == <<"L", "e", "f", "t">>
S_Right == <<"R", "i", "g", "h", "t">>
S_wrist == <<"w", "r", "i", "s", "t">>
S_landmarks == <<"l", "a", "n", "d", "m", "a", "r", "k", "s">>

\* _parse_floats, the try block: the floats of the chunks, or the ParseError
FloatsOf(floats) ==
    IF \E i \in 1..Len(floats) : IsNone(floats[i])
    THEN [error |-> "Payload contains non-float values.", values |-> <<>>]
    ELSE [error |-> "", values |-> [i \in 1..Len(floats) |-> Val(floats[i])]]

\* fault: empty chunks are kept
M_ChunksOf_keep_empty(raw) == [i \in 1..Len(raw) |-> strip(raw[i])]

\* _parse_floats, the list comprehension: the stripped non-empty chunks
ChunksOf(raw) ==
    LET kept == SelectSeq(raw, LAMBDA chunk : strip(chunk) # <<>>)
    IN  [i \in 1..Len(kept) |-> strip(kept[i])]

FloatAll(chunks) == [i \in 1..Len(chunks) |-> float(chunks[i])]

\* _parse_floats: [error, values]
_parse_floats(payload) == FloatsOf(FloatAll(ChunksOf(split_on(payload, ","))))

\* fault: the side is matched without regard to case
M_LabelOf_side_any_case(parts) ==
    IF Len(parts) # 2
    THEN [error |-> "Invalid label", side |-> "", kind |-> ""]
    ELSE IF lower(parts[1]) \notin {lower(S_Left), lower(S_Right)}
    THEN [error |-> "Unsupported hand side", side |-> "", kind |-> ""]
    ELSE IF lower(parts[2]) = S_wrist
    THEN [error |-> "", side |-> IF lower(parts[1]) = lower(S_Left) THEN LEFT ELSE RIGHT,
          kind |-> WRIST]
    ELSE IF lower(parts[2]) = S_landmarks
    THEN [error |-> "", side |-> IF lower(parts[1]) = lower(S_Left) THEN LEFT ELSE RIGHT,
          kind |-> LANDMARKS]
    ELSE [error |-> "Unsupported packet type", side |-> "", kind |-> ""]

\* _parse_label after label.split(): [error, side, kind]
LabelOf(parts) ==
    IF Len(parts) # 2
    THEN [error |-> "Invalid label", side |-> "", kind |-> ""]
    ELSE IF parts[1] \notin {S_Left, S_Right}
    THEN [error |-> "Unsupported hand side", side |-> "", kind |-> ""]
    ELSE IF lower(parts[2]) = S_wrist
    THEN [error |-> "", side |-> IF parts[1] = S_Left THEN LEFT ELSE RIGHT, kind |-> WRIST]
    ELSE IF lower(parts[2]) = S_landmarks
    THEN [error |-> "", side |-> IF parts[1] = S_Left THEN LEFT ELSE RIGHT, kind |-> LANDMARKS]
    ELSE [error |-> "Unsupported packet type", side |-> "", kind |-> ""]

\* _parse_label: [error, side, kind]
_parse_label(label) == LabelOf(split_ws(label))

\* _parse_wrist
_parse_wrist(side, values) ==
    IF Len(values) # WRIST_VALUE_COUNT
    THEN ParseError("Wrist packet must contain 7 values")
    ELSE Parsed(WristPacket(side, WristPose(values)))

\* fault: the points are taken with stride 1 instead of 3
M__parse_landmarks_stride(side, values) ==
    IF Len(values) # LANDMARK_VALUE_COUNT
    THEN ParseError("Landmarks packet must contain 63 values")
    ELSE Parsed(LandmarksPacket(side, HandLandmarks(
            [k \in 1..LANDMARK_COUNT |-> <<values[k], values[k + 1], values[k + 2]>>])))

\* _parse_landmarks
_parse_landmarks(side, values) ==
    IF Len(values) # LANDMARK_VALUE_COUNT
    THEN ParseError("Landmarks packet must contain 63 values")
    ELSE Parsed(LandmarksPacket(side, HandLandmarks(
            [k \in 1..LANDMARK_COUNT |->
                <<values[3 * (k - 1) + 1], values[3 * (k - 1) + 2], values[3 * (k - 1) + 3]>>])))

\* parse_line, lines 44-47: the packet of a parsed label and payload
PacketOfLabel(parsed_label, values) ==
    IF parsed_label.error # ""
    THEN ParseError(parsed_label.error)
    ELSE IF parsed_label.kind = WRIST
    THEN _parse_wrist(parsed_label.side, values)
    ELSE _parse_landmarks(parsed_label.side, values)

\* parse_line, lines 41-44: the payload is parsed before the label
ParseLabelled(label, payload) ==
    IF payload.error # ""
    THEN ParseError(payload.error)
    ELSE PacketOfLabel(_parse_label(label), payload.values)

\* parse_line, lines 37-42: parts is stripped.partition(":")
ParsePartitioned(parts) ==
    IF parts[2] = <<>>
    THEN ParseError("Missing ':' separator.")
    ELSE ParseLabelled(strip(parts[1]), _parse_floats(parts[3]))

\* parse_line, lines 33-37
ParseStripped(stripped) ==
    IF stripped = <<>>
    THEN ParseError("Empty line.")
    ELSE ParsePartitioned(partition(stripped, ":"))

\* parse_line
parse_line(line) == ParseStripped(strip(line))

----------------------------------------------------------------------------
(* frame.py: HandFrameAssembler.  An operator named M_... is a variant of   *)
(* the operator that follows it, with one fault seeded.                     *)

_SideAssemblyState ==
    [wrist |-> None,
     wrist_recv_ts_ns |-> None,
     landmarks |-> None,
     landmarks_recv_ts_ns |-> None,
     last_emitted_wrist_recv_ts_ns |-> None,
     last_emitted_landmarks_recv_ts_ns |-> None,
     next_sequence_id |-> 0]

_frame_id_by_side == [s \in HandSide |-> IF s = LEFT THEN "hts_left_hand" ELSE "hts_right_hand"]

\* HandFrameAssembler.__init__: self._state
InitState == [s \in HandSide |-> _SideAssemblyState]

\* fault: the two sides share one _SideAssemblyState object
M_Update_shared(st, side, side_state) == [s \in HandSide |-> side_state]

\* a write through side_state = self._state[side]: each side has its own object
Update(st, side, side_state) == [st EXCEPT ![side] = side_state]

\* fault: reset(side) ignores its argument and clears both sides
M_reset_both(st, side) == [s \in HandSide |-> _SideAssemblyState]

\* fault: reset leaves the stored components in place
M_reset_keeps_components(st, side) ==
    [s \in HandSide |->
        IF IsNone(side) \/ Val(side) = s
        THEN [st[s] EXCEPT !.last_emitted_wrist_recv_ts_ns = None,
                           !.last_emitted_landmarks_recv_ts_ns = None,
                           !.next_sequence_id = 0]
        ELSE st[s]]

\* HandFrameAssembler.reset(side): side is None or a HandSide
reset(st, side) ==
    IF IsNone(side)
    THEN [[st EXCEPT ![LEFT] = _SideAssemblyState] EXCEPT ![RIGHT] = _SideAssemblyState]
    ELSE [st EXCEPT ![Val(side)] = _SideAssemblyState]

\* fault: the wall clock is preferred to the caller's recv_time_unix_ns
M__resolve_timestamps_wall_first(wall, recv_ts_ns, recv_time_unix_ns, mono_now, wall_now) ==
    <<IF IsNone(recv_ts_ns) THEN mono_now ELSE Val(recv_ts_ns),
      IF wall THEN Some(wall_now) ELSE recv_time_unix_ns>>

\* HandFrameAssembler._resolve_timestamps: mono_now and wall_now are the values
\* monotonic_ns() and time_ns() give when they are called
_resolve_timestamps(wall, recv_ts_ns, recv_time_unix_ns, mono_now, wall_now) ==
    LET recv_ts_ns_value == IF IsNone(recv_ts_ns) THEN mono_now ELSE Val(recv_ts_ns)
    IN  IF ~IsNone(recv_time_unix_ns)
        THEN <<recv_ts_ns_value, recv_time_unix_ns>>
        ELSE IF wall
             THEN <<recv_ts_ns_value, Some(wall_now)>>
             ELSE <<recv_ts_ns_value, None>>

\* _maybe_emit_frame, the completeness test
Incomplete(side_state) ==
    \/ IsNone(side_state.wrist)
    \/ IsNone(side_state.wrist_recv_ts_ns)
    \/ IsNone(side_state.landmarks)
    \/ IsNone(side_state.landmarks_recv_ts_ns)

\* fault: a frame needs both components to be new
M_Advanced_both(side_state) ==
    /\ side_state.last_emitted_wrist_recv_ts_ns # side_state.wrist_recv_ts_ns
    /\ side_state.last_emitted_landmarks_recv_ts_ns # side_state.landmarks_recv_ts_ns

\* fault: every accepted push of a complete side emits
M_Advanced_always(side_state) == TRUE

\* _maybe_emit_frame, the advancement test: has_new_wrist or has_new_landmarks
Advanced(side_state) ==
    LET has_new_wrist ==
            side_state.last_emitted_wrist_recv_ts_ns # side_state.wrist_recv_ts_ns
        has_new_landmarks ==
            side_state.last_emitted_landmarks_recv_ts_ns # side_state.landmarks_recv_ts_ns
    IN  ~(~has_new_wrist /\ ~has_new_landmarks)

\* fault: the counter is read and not incremented
M_Emitted_no_increment(side_state) ==
    [side_state EXCEPT
        !.last_emitted_wrist_recv_ts_ns = side_state.wrist_recv_ts_ns,
        !.last_emitted_landmarks_recv_ts_ns = side_state.landmarks_recv_ts_ns]

\* fault: only the wrist marker is advanced
M_Emitted_wrist_marker_only(side_state) ==
    [side_state EXCEPT
        !.next_sequence_id = side_state.next_sequence_id + 1,
        !.last_emitted_wrist_recv_ts_ns = side_state.wrist_recv_ts_ns]

\* _maybe_emit_frame, the side state after an emission
Emitted(side_state) ==
    [side_state EXCEPT
        !.next_sequence_id = side_state.next_sequence_id + 1,
        !.last_emitted_wrist_recv_ts_ns = side_state.wrist_recv_ts_ns,
        !.last_emitted_landmarks_recv_ts_ns = side_state.landmarks_recv_ts_ns]

\* fault: the frame is stamped with the wrist timestamp
M_frame_recv_ts_ns_wrist(side_state) == Val(side_state.wrist_recv_ts_ns)

\* _maybe_emit_frame, HandFrame.recv_ts_ns
frame_recv_ts_ns(side_state) ==
    Max(Val(side_state.wrist_recv_ts_ns), Val(side_state.landmarks_recv_ts_ns))

\* _maybe_emit_frame, the HandFrame built from side_state
HandFrame(side, side_state, recv_time_unix_ns, source_ts_ns) ==
    [side |-> side,
     frame_id |-> _frame_id_by_side[side],
     wrist |-> Val(side_state.wrist),
     landmarks |-> Val(side_state.landmarks),
     sequence_id |-> side_state.next_sequence_id,
     recv_ts_ns |-> frame_recv_ts_ns(side_state),
     recv_time_unix_ns |-> recv_time_unix_ns,
     source_ts_ns |-> source_ts_ns,
     wrist_recv_ts_ns |-> Val(side_state.wrist_recv_ts_ns),
     landmarks_recv_ts_ns |-> Val(side_state.landmarks_recv_ts_ns)]

\* HandFrameAssembler._maybe_emit_frame: the new state and the returned value
_maybe_emit_frame(st, side, recv_time_unix_ns, source_ts_ns) ==
    IF Incomplete(st[side])
    THEN [state |-> st, ret |-> None]
    ELSE IF ~Advanced(st[side])
    THEN [state |-> st, ret |-> None]
    ELSE [state |-> Update(st, side, Emitted(st[side])),
          ret |-> Some(HandFrame(side, st[side], recv_time_unix_ns, source_ts_ns))]

\* fault: no staleness test
M_IsStale_never(stored_ts, recv_ts_ns_value) == FALSE

\* fault: <= where the code has <
M_IsStale_or_equal(stored_ts, recv_ts_ns_value) ==
    ~IsNone(stored_ts) /\ recv_ts_ns_value <= Val(stored_ts)

\* push_packet, the staleness test of one component
IsStale(stored_ts, recv_ts_ns_value) ==
    ~IsNone(stored_ts) /\ recv_ts_ns_value < Val(stored_ts)

\* push_packet after _resolve_timestamps: resolved is (recv_ts_ns, recv_time_unix_ns)
PushResolved(st, packet, resolved, source_ts_ns) ==
    IF packet.type = "WristPacket"
    THEN IF IsStale(st[packet.side].wrist_recv_ts_ns, resolved[1])
         THEN [state |-> st, ret |-> None]
         ELSE _maybe_emit_frame(
                Update(st, packet.side,
                       [st[packet.side] EXCEPT !.wrist = Some(packet.data),
                                               !.wrist_recv_ts_ns = Some(resolved[1])]),
                packet.side, resolved[2], source_ts_ns)
    ELSE IF packet.type = "LandmarksPacket"
    THEN IF IsStale(st[packet.side].landmarks_recv_ts_ns, resolved[1])
         THEN [state |-> st, ret |-> None]
         ELSE _maybe_emit_frame(
                Update(st, packet.side,
                       [st[packet.side] EXCEPT !.landmarks = Some(packet.data),
                                               !.landmarks_recv_ts_ns = Some(resolved[1])]),
                packet.side, resolved[2], source_ts_ns)
    ELSE _maybe_emit_frame(st, packet.side, resolved[2], source_ts_ns)

\* HandFrameAssembler.push_packet: the new state and the returned value
push_packet(st, wall, packet, recv_ts_ns, recv_time_unix_ns, source_ts_ns, mono_now, wall_now) ==
    PushResolved(st, packet,
                 _resolve_timestamps(wall, recv_ts_ns, recv_time_unix_ns, mono_now, wall_now),
                 source_ts_ns)

----------------------------------------------------------------------------
(* The inputs of the model *)

Ts == 0..MaxTs
\* two sample payloads per component: the assembler stores a payload and never reads it
PayloadIds == {1, 2}

\* the value time_ns() gives, and the values a caller passes
WallNow == {8}
UnixArgs == {None, Some(5)}
SourceArgs == {None, Some(3)}

WristValues(p) == <<p, 0, 0, 0, 0, 0, 1>>
LandmarkValues(p) == [i \in 1..LANDMARK_VALUE_COUNT |-> IF i = 1 THEN p ELSE i % 10]

Floats(v) == [i \in 1..Len(v) |-> Num(v[i])]

WristData(p) == WristPose(Floats(WristValues(p)))
LandmarksData(p) ==
    HandLandmarks([k \in 1..LANDMARK_COUNT |->
        <<Num(LandmarkValues(p)[3 * (k - 1) + 1]),
          Num(LandmarkValues(p)[3 * (k - 1) + 2]),
          Num(LandmarkValues(p)[3 * (k - 1) + 3])>>])

PacketOf(s, k, p) ==
    IF k = WRIST THEN WristPacket(s, WristData(p)) ELSE LandmarksPacket(s, LandmarksData(p))

\* the wire text of a list of one-digit values: ", v1, v2, ..."
RECURSIVE Payload(_)
Payload(v) ==
    IF v = <<>> THEN <<>>
    ELSE <<",", " ", Digits[Head(v) + 1]>> \o Payload(Tail(v))

SideText(s) == IF s = LEFT THEN S_Left ELSE S_Right

WristLine(s, p) == SideText(s) \o <<" ">> \o S_wrist \o <<":">> \o Payload(WristValues(p))
LandmarksLine(s, p) ==
    SideText(s) \o <<" ">> \o S_landmarks \o <<":">> \o Payload(LandmarkValues(p))

LineOf(s, k, p) == IF k = WRIST THEN WristLine(s, p) ELSE LandmarksLine(s, p)

GoodLines == {LineOf(s, k, p) : s \in HandSide, k \in PacketType, p \in PayloadIds}

BadLines ==
    { <<>>,
      S_Left \o <<" ">> \o S_wrist \o <<" ", "1", ",", "2", ",", "3">>,
      <<"M", "i", "d", "d", "l", "e", " ">> \o S_wrist \o <<":">> \o Payload(WristValues(1)),
      S_Right \o <<" ">> \o S_wrist \o <<":">> \o Payload(<<1, 2, 3>>),
      S_Right \o <<" ">> \o S_wrist \o <<":">> \o Payload(<<1, 2, 3, 4, 5, 6>>)
          \o <<",", "f", "o", "o">> }

Lines == GoodLines \cup BadLines

\* Lines are parsed once: the table of parse_line over the lines of the model.
ParseTable == {<<line, parse_line(line)>> : line \in Lines}
ParsedLines(line) == (CHOOSE e \in ParseTable : e[1] = line)[2]

\* The packets of the model, each with a line that carries it
Samples ==
    {[side |-> s, kind |-> k, p |-> p, packet |-> PacketOf(s, k, p), line |-> LineOf(s, k, p)] :
        s \in HandSide, k \in PacketType, p \in PayloadIds}

\* fault: a ParseError is swallowed and None returned
M_push_line_swallow(st, wall, line, recv_ts_ns, recv_time_unix_ns, source_ts_ns, mono_now, wall_now) ==
    IF ParsedLines(line).error # ""
    THEN [state |-> st, ret |-> None, raised |-> ""]
    ELSE [state |-> push_packet(st, wall, Val(ParsedLines(line).packet), recv_ts_ns,
                                recv_time_unix_ns, source_ts_ns, mono_now, wall_now).state,
          ret |-> push_packet(st, wall, Val(ParsedLines(line).packet), recv_ts_ns,
                              recv_time_unix_ns, source_ts_ns, mono_now, wall_now).ret,
          raised |-> ""]

\* push_line, the return statement: the outcome r of push_packet is returned
Returned(r) == [state |-> r.state, ret |-> r.ret, raised |-> ""]

\* push_line after parse_line: parsed is the parser's result
PushParsed(st, wall, parsed, recv_ts_ns, recv_time_unix_ns, source_ts_ns, mono_now, wall_now) ==
    IF parsed.error # ""
    THEN [state |-> st, ret |-> None, raised |-> "ParseError"]
    ELSE Returned(push_packet(st, wall, Val(parsed.packet), recv_ts_ns,
                              recv_time_unix_ns, source_ts_ns, mono_now, wall_now))

\* HandFrameAssembler.push_line: the new state, the returned value and the
\* exception raised ("" when the call returns)
push_line(st, wall, line, recv_ts_ns, recv_time_unix_ns, source_ts_ns, mono_now, wall_now) ==
    PushParsed(st, wall, ParsedLines(line), recv_ts_ns, recv_time_unix_ns, source_ts_ns,
               mono_now, wall_now)

\* The callers of one run.  The side `focus` is called with every timestamp and
\* payload of the model, the other side with timestamp 0 and the first payload;
\* push_line is called with lines that carry the first payload.  `unix` and
\* `source` are the recv_time_unix_ns and source_ts_ns values the callers pass.
Callers(focus, unix, source) ==
    [ts |-> [s \in HandSide |-> IF s = focus THEN Ts ELSE {0}],
     payloads |-> [s \in HandSide |-> IF s = focus THEN PayloadIds ELSE {1}],
     line_payloads |-> {1},
     unix |-> unix,
     source |-> source]

\* Callers of one side only, with one payload per component: the profile of the
\* runs that vary recv_time_unix_ns, source_ts_ns and include_wall_time.
SideCallers(focus, unix, source) ==
    [ts |-> [s \in HandSide |-> IF s = focus THEN Ts ELSE {}],
     payloads |-> [s \in HandSide |-> IF s = focus THEN {1} ELSE {}],
     line_payloads |-> {1},
     unix |-> unix,
     source |-> source]

\* the recv_ts_ns arguments for side s, each with the value monotonic_ns() gives
\* when it is read: a timestamp, or None and the clock's value
TsArgs(s) ==
    {<<Some(t), 0>> : t \in inputs.ts[s]}
    \cup {<<None, t>> : t \in {u \in inputs.ts[s] : \A v \in inputs.ts[s] : v <= u}}

TsPassed(s) == {<<Some(t), 0>> : t \in inputs.ts[s]}

----------------------------------------------------------------------------
(* The assembler as a state machine: one action per public method *)

Covers(side, s) == IsNone(side) \/ Val(side) = s

StoredTs(ss, kind) == IF kind = WRIST THEN ss.wrist_recv_ts_ns ELSE ss.landmarks_recv_ts_ns
StoredData(ss, kind) == IF kind = WRIST THEN ss.wrist ELSE ss.landmarks
FrameData(f, kind) == IF kind = WRIST THEN f.wrist ELSE f.landmarks

LowestStored(ss) ==
    IF IsNone(ss.wrist_recv_ts_ns) THEN ss.landmarks_recv_ts_ns
    ELSE IF IsNone(ss.landmarks_recv_ts_ns) THEN ss.wrist_recv_ts_ns
    ELSE Some(Min(Val(ss.wrist_recv_ts_ns), Val(ss.landmarks_recv_ts_ns)))

\* no line is given to parse_line
NoGiven ==
    [written |-> FALSE, label |-> <<>>, sep |-> <<>>, tokens |-> <<>>, pad |-> 0,
     lead |-> FALSE, trail |-> FALSE]

ParserIdle ==
    /\ given = NoGiven
    /\ text = <<>>
    /\ outcome = None
    /\ plain_outcome = None

\* ClientStats()
ClientStats ==
    [lines_received |-> 0, parse_errors |-> 0, dropped_lines |-> 0, packets_filtered |-> 0,
     packets_emitted |-> 0, frames_emitted |-> 0, callbacks_invoked |-> 0, callback_errors |-> 0]

\* reset_stats was never called.  mark.inside: the last reset_stats was called by
\* the log hook while iter_events was handling a line.
NoMark == [pulled |-> 0, events |-> 0, inside |-> FALSE]

\* run was never called
\* runner.phase: "none", "iterating" (run waits for the generator's next event),
\* "callback" (the callback is running), "returned", "raised".
\* runner.invoked: the calls of the callback that were started.
\* runner.thrown: what the callback raised.
NoRun ==
    [phase |-> "none", max_events |-> None, wrap_callback_exceptions |-> FALSE,
     processed |-> 0, invoked |-> 0, thrown |-> "", returned |-> None, raised |-> ""]

\* no HTSClientConfig was constructed
NoMade ==
    [done |-> FALSE, host |-> "", port |-> 0, timeout_s |-> 0, reconnect_delay_s |-> 0,
     raised |-> ""]

\* nothing is serialized
NoTrip == [class |-> "", v |-> None, d |-> None, back |-> None]

\* nothing is serialized, converted or shown
ToolsIdle ==
    /\ trip = NoTrip
    /\ conv = <<>>
    /\ viz = <<>>

\* no receiver is constructed
TransportIdle ==
    /\ rx = None
    /\ net = None
    /\ log = <<>>

\* no HTSClient is constructed
ClientIdle ==
    /\ config = None
    /\ stats = ClientStats
    /\ pc = "idle"
    /\ pending = None
    /\ events = <<>>
    /\ pulled = <<>>
    /\ clock = 0
    /\ ref = None
    /\ mark = NoMark
    /\ runner = NoRun
    /\ made = NoMade

\* call.replaced: the call was a push whose timestamp equals the stored one of its
\* component and whose payload differs from the stored one.
\* call.lowest: for a reset, the lowest timestamp stored on the sides it covers;
\* for a push that directly follows a reset covering its side, the lowest
\* timestamp that reset cleared.
\* call.parsed: for a push_line, whether parse_line accepts the line ("ok", "error").
\* call.unix, call.source: the recv_time_unix_ns and source_ts_ns a push was given.
\* call.wall_now: the value time_ns() has during a push.
NoCall ==
    [op |-> "init", side |-> None, kind |-> "", ts |-> None, data |-> None,
     replaced |-> FALSE, lowest |-> None, parsed |-> "",
     unix |-> None, source |-> None, wall_now |-> None]

\* HandFrameAssembler(include_wall_time=wall), and the callers of the run
InitAssembler(callers, wall) ==
    /\ inputs = callers
    /\ include_wall_time = wall
    /\ state = InitState
    /\ call = NoCall
    /\ ret = None
    /\ raised = ""
    /\ frames = [s \in HandSide |-> <<>>]
    /\ accepted = [s \in HandSide |-> {}]
    /\ solo = [s \in HandSide |-> InitState]
    /\ solo_ret = None
    /\ twin = None
    /\ prior = [s \in HandSide |-> None]

InitWith(callers, wall) ==
    /\ InitAssembler(callers, wall)
    /\ ParserIdle
    /\ TransportIdle
    /\ ToolsIdle
    /\ ClientIdle

Init == \E focus \in HandSide : InitWith(Callers(focus, {None}, {None}), TRUE)

\* the receive timestamps of a frame
Stamps(frame) ==
    [wrist_recv_ts_ns |-> frame.wrist_recv_ts_ns,
     landmarks_recv_ts_ns |-> frame.landmarks_recv_ts_ns,
     recv_ts_ns |-> frame.recv_ts_ns]

\* the bookkeeping of a push of `packet` whose outcome is r
Pushed(op, packet, r, recv_ts_ns, recv_time_unix_ns, source_ts_ns, mono_now, wall_now) ==
    LET s == packet.side
        k == packet.kind
        t == _resolve_timestamps(include_wall_time, recv_ts_ns, recv_time_unix_ns,
                                 mono_now, wall_now)[1]
        alone == push_packet(solo[s], include_wall_time, packet, recv_ts_ns,
                             recv_time_unix_ns, source_ts_ns, mono_now, wall_now)
    IN  /\ state' = r.state
        /\ ret' = r.ret
        /\ raised' = r.raised
        /\ call' = [op |-> op, side |-> Some(s), kind |-> k, ts |-> Some(t),
                    data |-> Some(packet.data),
                    replaced |-> /\ StoredTs(state[s], k) = Some(t)
                                 /\ StoredData(state[s], k) # Some(packet.data),
                    lowest |-> IF call.op = "reset" /\ Covers(call.side, s)
                               THEN call.lowest ELSE None,
                    parsed |-> IF op = "push_line" THEN "ok" ELSE "",
                    unix |-> recv_time_unix_ns,
                    source |-> source_ts_ns,
                    wall_now |-> Some(wall_now)]
        /\ frames' = IF IsNone(r.ret) THEN frames
                     ELSE [frames EXCEPT ![Val(r.ret).side] = Append(@, Val(r.ret).sequence_id)]
        /\ accepted' = IF StoredTs(r.state[s], k) = Some(t) /\ StoredData(r.state[s], k) = Some(packet.data)
                       THEN [accepted EXCEPT ![s] = @ \cup {k}]
                       ELSE accepted
        /\ solo' = [solo EXCEPT ![s] = alone.state]
        /\ solo_ret' = alone.ret
        /\ prior' = IF IsNone(r.ret) THEN prior
                    ELSE [prior EXCEPT ![Val(r.ret).side] = Some(Stamps(Val(r.ret)))]
        /\ twin' = IF op = "push_line"
                   THEN Some(push_packet(state, include_wall_time, packet, recv_ts_ns,
                                         recv_time_unix_ns, source_ts_ns, mono_now, wall_now))
                   ELSE None
        /\ UNCHANGED <<inputs, include_wall_time, parserVars, clientVars, transportVars, toolVars>>

\* assembler.push_packet(packet, recv_ts_ns=..., recv_time_unix_ns=..., source_ts_ns=...)
PushPacket ==
    \E smp \in Samples :
    \E ts \in TsArgs(smp.side), recv_time_unix_ns \in inputs.unix,
       source_ts_ns \in inputs.source, wall_now \in WallNow :
        /\ smp.p \in inputs.payloads[smp.side]
        /\ Pushed("push_packet", smp.packet,
                  Returned(push_packet(state, include_wall_time, smp.packet, ts[1],
                                       recv_time_unix_ns, source_ts_ns, ts[2], wall_now)),
                  ts[1], recv_time_unix_ns, source_ts_ns, ts[2], wall_now)

\* assembler.push_line(line, ...) on a line the parser accepts
PushGoodLine ==
    \E smp \in Samples :
    \E ts \in TsPassed(smp.side), recv_time_unix_ns \in inputs.unix,
       source_ts_ns \in inputs.source, wall_now \in WallNow :
        /\ smp.p \in inputs.line_payloads
        /\ ParsedLines(smp.line).error = ""
        /\ Pushed("push_line", Val(ParsedLines(smp.line).packet),
                  push_line(state, include_wall_time, smp.line, ts[1],
                            recv_time_unix_ns, source_ts_ns, ts[2], wall_now),
                  ts[1], recv_time_unix_ns, source_ts_ns, ts[2], wall_now)

\* the bookkeeping of a push_line of a line the parser rejects: r is its outcome
Rejected(r) ==
    /\ state' = r.state
    /\ ret' = r.ret
    /\ raised' = r.raised
    /\ call' = [NoCall EXCEPT !.op = "push_line", !.parsed = "error"]
    /\ solo_ret' = None
    /\ twin' = None
    /\ UNCHANGED <<inputs, include_wall_time, frames, accepted, solo, prior, parserVars, clientVars,
                   transportVars, toolVars>>

\* assembler.push_line(line, ...) on a line the parser rejects
PushBadLine ==
    \E line \in BadLines :
    \E ts \in {<<None, 0>>}, recv_time_unix_ns \in inputs.unix,
       source_ts_ns \in inputs.source, wall_now \in WallNow :
        /\ ParsedLines(line).error # ""
        /\ Rejected(push_line(state, include_wall_time, line, ts[1],
                              recv_time_unix_ns, source_ts_ns, ts[2], wall_now))

PushLine == PushGoodLine \/ PushBadLine

\* the lowest timestamp stored on the sides a reset(side) covers, None when there is none
LowestCovered(st, side) ==
    LET stored == {s \in HandSide : Covers(side, s) /\ ~IsNone(LowestStored(st[s]))}
        lows == {Val(LowestStored(st[s])) : s \in stored}
    IN  IF stored = {} THEN None
        ELSE Some(CHOOSE t \in lows : \A u \in lows : t <= u)

\* assembler.reset(side)
Reset ==
    \E side \in {None} \cup {Some(s) : s \in HandSide} :
        /\ state' = reset(state, side)
        /\ ret' = None
        /\ raised' = ""
        /\ call' = [NoCall EXCEPT !.op = "reset", !.side = side,
                                  !.lowest = LowestCovered(state, side)]
        /\ frames' = [s \in HandSide |-> IF Covers(side, s) THEN <<>> ELSE frames[s]]
        /\ accepted' = [s \in HandSide |-> IF Covers(side, s) THEN {} ELSE accepted[s]]
        /\ solo' = [s \in HandSide |-> IF Covers(side, s) THEN reset(solo[s], side) ELSE solo[s]]
        /\ solo_ret' = None
        /\ twin' = None
        /\ prior' = [s \in HandSide |-> IF Covers(side, s) THEN None ELSE prior[s]]
        /\ UNCHANGED <<inputs, include_wall_time, parserVars, clientVars, transportVars, toolVars>>

Next == PushPacket \/ PushLine \/ Reset

Spec == Init /\ [][Next]_vars

\* The assembler with either setting of include_wall_time, called for one side
\* with and without recv_time_unix_ns and source_ts_ns
InitStamps ==
    \E focus \in HandSide, wall \in BOOLEAN :
        InitWith(SideCallers(focus, UnixArgs, SourceArgs), wall)

SpecStamps == InitStamps /\ [][Next]_vars

----------------------------------------------------------------------------
(* parse_line on its own: a line is written from a label, a separator and   *)
(* payload tokens, with whitespace and empty tokens added, and parsed.      *)

\* the whitespace added around the line, the label and each token: 0..MaxPad characters
MaxPad == 1

Pad(n) == SubSeq(<<" ", "\t", "\n", "\r", "\f">>, 1, n)

SideTokens ==
    {S_Left, S_Right, <<"M", "i", "d", "d", "l", "e">>, <<"l", "e", "f", "t">>,
     <<"R", "I", "G", "H", "T">>}
KindTokens ==
    {S_wrist, S_landmarks, <<"W", "r", "i", "s", "t">>,
     <<"L", "A", "N", "D", "M", "A", "R", "K", "S">>, <<"u", "n", "k", "n", "o", "w", "n">>}

\* the labels: a side and a kind, and labels of no, one and three tokens
LabelTokens ==
    {<<side, kind>> : side \in SideTokens, kind \in KindTokens}
    \cup {<<>>, <<S_Left>>, <<S_Right, S_wrist, S_wrist>>}

DigitTokens(values) == [i \in 1..Len(values) |-> <<Digits[values[i] + 1]>>]

\* seven tokens in the forms float() reads
FloatForms ==
    << <<"1", ".", "5">>, <<"-", "2">>, <<"1", "e", "2">>, <<".", "5">>,
       <<"n", "a", "n">>, <<"I", "n", "f">>, <<"+", "1", "_", "0">> >>

S_foo == <<"f", "o", "o">>

\* the payloads: token lists of the right and of wrong lengths, with and
\* without a token that is no float
PayloadTokens ==
    { DigitTokens(<<1, 2, 3, 4, 5, 6, 7>>),
      FloatForms,
      DigitTokens(<<1, 2, 3>>),
      DigitTokens(<<1, 2, 3, 4, 5, 6>>) \o <<S_foo>>,
      <<S_foo>> \o DigitTokens(<<1, 2>>),
      DigitTokens(<<1, 2, 3, 4, 5, 6, 7, 8>>),
      DigitTokens(LandmarkValues(1)),
      DigitTokens(SubSeq(LandmarkValues(1), 1, LANDMARK_VALUE_COUNT - 1)),
      <<>> }

Givens ==
    {[written |-> TRUE, label |-> label, sep |-> sep, tokens |-> tokens, pad |-> pad,
      lead |-> lead, trail |-> trail] :
        label \in LabelTokens, sep \in {<<":">>, <<>>}, tokens \in PayloadTokens,
        pad \in 0..MaxPad, lead \in BOOLEAN, trail \in BOOLEAN}

\* the tokens joined by commas, each with w around it
RECURSIVE JoinTokens(_, _)
JoinTokens(tokens, w) ==
    IF tokens = <<>> THEN <<>>
    ELSE IF Len(tokens) = 1 THEN w \o tokens[1] \o w
    ELSE w \o tokens[1] \o w \o <<",">> \o JoinTokens(Tail(tokens), w)

\* the words of the label, a space and w between them
RECURSIVE JoinWords(_, _)
JoinWords(words, w) ==
    IF words = <<>> THEN <<>>
    ELSE IF Len(words) = 1 THEN words[1]
    ELSE words[1] \o <<" ">> \o w \o JoinWords(Tail(words), w)

\* the line of g: whitespace w around the line, the label and each token and, when
\* the line has a separator and so a payload, an empty token before the payload
\* when lead and one after it when trail
LineWith(g, w, lead, trail) ==
    w \o JoinWords(g.label, w) \o w
      \o (IF g.sep = <<>> THEN <<" ">> ELSE g.sep)
      \o (IF lead /\ g.sep # <<>> THEN w \o <<",">> ELSE <<>>)
      \o JoinTokens(g.tokens, w)
      \o (IF trail /\ g.sep # <<>> THEN <<",">> \o w ELSE <<>>)
      \o w

Line(g) == LineWith(g, Pad(g.pad), g.lead, g.trail)
PlainLine(g) == LineWith(g, <<>>, FALSE, FALSE)

InitParser ==
    /\ InitWith(Callers(LEFT, {None}, {None}), TRUE)

\* a caller writes a line
GiveLine ==
    /\ ~given.written
    /\ \E g \in Givens :
        /\ given' = g
        /\ text' = Line(g)
    /\ outcome' = None
    /\ plain_outcome' = None
    /\ UNCHANGED <<assemblerVars, clientVars, transportVars, toolVars>>

\* parse_line(text), and parse_line of the undecorated line
ParseLine ==
    /\ given.written
    /\ outcome = None
    /\ outcome' = Some(parse_line(text))
    /\ plain_outcome' = Some(parse_line(PlainLine(given)))
    /\ UNCHANGED <<given, text, assemblerVars, clientVars, transportVars, toolVars>>

NextParser == GiveLine \/ ParseLine

SpecParser == InitParser /\ [][NextParser]_vars

----------------------------------------------------------------------------
(* client.py: HTSClient.iter_events.  The generator runs from one yield to  *)
(* the next: pc is "loop" when it stands at the head of the for loop (before *)
(* the first line, or suspended at `yield frame`) and "packet" when it is    *)
(* suspended at `yield packet`.                                              *)

\* the receiver gives at most MaxLines lines
MaxLines == 3

StreamOutput_PACKETS == "packets"
StreamOutput_FRAMES == "frames"
StreamOutput_BOTH == "both"
StreamOutput == {StreamOutput_PACKETS, StreamOutput_FRAMES, StreamOutput_BOTH}

HandFilter_BOTH == "both"
HandFilter_LEFT == "left"
HandFilter_RIGHT == "right"
HandFilter == {HandFilter_BOTH, HandFilter_LEFT, HandFilter_RIGHT}

STRICT == "strict"
TOLERANT == "tolerant"
ErrorPolicy == {STRICT, TOLERANT}

HTSClientConfig(output, hand_filter, error_policy, wall) ==
    [output |-> output, hand_filter |-> hand_filter, error_policy |-> error_policy,
     include_wall_time |-> wall]

\* the lines a receiver gives: the four packets with the first payload, and a
\* line without separator
NoSeparatorLine == S_Left \o <<" ">> \o S_wrist \o <<" ", "1", ",", "2", ",", "3">>
ClientLines == {LineOf(s, k, 1) : s \in HandSide, k \in PacketType} \cup {NoSeparatorLine}

\* fault: every side passes the filter
M__matches_hand_filter_all(cfg, side) == TRUE

\* HTSClient._matches_hand_filter
_matches_hand_filter(cfg, side) ==
    IF cfg.hand_filter = HandFilter_BOTH THEN TRUE
    ELSE IF cfg.hand_filter = HandFilter_LEFT THEN side = LEFT
    ELSE side = RIGHT

\* fault: a parse error is swallowed under the strict policy too
M__parse_with_policy_never_raise(cfg, st8, line) ==
    IF ParsedLines(line).error # ""
    THEN [stats |-> [st8 EXCEPT !.parse_errors = @ + 1, !.dropped_lines = @ + 1],
          packet |-> None, raised |-> ""]
    ELSE [stats |-> st8, packet |-> ParsedLines(line).packet, raised |-> ""]

\* fault: a parse error is raised under the tolerant policy too
M__parse_with_policy_always_raise(cfg, st8, line) ==
    IF ParsedLines(line).error # ""
    THEN [stats |-> [st8 EXCEPT !.parse_errors = @ + 1, !.dropped_lines = @ + 1],
          packet |-> None, raised |-> "ParseError"]
    ELSE [stats |-> st8, packet |-> ParsedLines(line).packet, raised |-> ""]

\* HTSClient._parse_with_policy: the new stats, the packet (None when the line is
\* dropped) and the exception raised ("" when it returns)
_parse_with_policy(cfg, st8, line) ==
    IF ParsedLines(line).error # ""
    THEN [stats |-> [st8 EXCEPT !.parse_errors = @ + 1, !.dropped_lines = @ + 1],
          packet |-> None,
          raised |-> IF cfg.error_policy = STRICT THEN "ParseError" ELSE ""]
    ELSE [stats |-> st8, packet |-> ParsedLines(line).packet, raised |-> ""]

\* One run of the generator, from a resumption to the next suspension or to its
\* end: where it stands then, the stats, the assembler's state, the packet it
\* holds, what it yielded, and whether monotonic_ns() was read.
Ran(at, st8, st, held, yielded, read) ==
    [pc |-> at, stats |-> st8, state |-> st, pending |-> held, yielded |-> yielded, read |-> read]

PacketEvent(packet) == [kind |-> "packet", event |-> packet]
FrameEvent(frame) == [kind |-> "frame", event |-> frame]

\* iter_events, lines 248-259: r is what push_packet gave
FramePushed(st8, r) ==
    IF ~IsNone(r.ret)
    THEN Ran("loop", [st8 EXCEPT !.frames_emitted = @ + 1], r.state, None,
             <<FrameEvent(Val(r.ret))>>, TRUE)
    ELSE Ran("loop", st8, r.state, None, <<>>, TRUE)

\* iter_events, lines 246-259
FramesPart(cfg, st, st8, packet, mono_now, wall_now) ==
    IF cfg.output \in {StreamOutput_FRAMES, StreamOutput_BOTH}
    THEN FramePushed(st8, push_packet(st, cfg.include_wall_time, packet, None, None, None,
                                      mono_now, wall_now))
    ELSE Ran("loop", st8, st, None, <<>>, FALSE)

\* fault: packets are yielded in the packets mode only
M_PacketsPart_packets_only(cfg, st, st8, packet, mono_now, wall_now) ==
    IF cfg.output = StreamOutput_PACKETS
    THEN Ran("packet", [st8 EXCEPT !.packets_emitted = @ + 1], st, Some(packet),
             <<PacketEvent(packet)>>, FALSE)
    ELSE FramesPart(cfg, st, st8, packet, mono_now, wall_now)

\* iter_events, lines 235-259, up to the next yield
PacketsPart(cfg, st, st8, packet, mono_now, wall_now) ==
    IF cfg.output \in {StreamOutput_PACKETS, StreamOutput_BOTH}
    THEN Ran("packet", [st8 EXCEPT !.packets_emitted = @ + 1], st, Some(packet),
             <<PacketEvent(packet)>>, FALSE)
    ELSE FramesPart(cfg, st, st8, packet, mono_now, wall_now)

\* fault: a filtered packet is not counted in dropped_lines
M_FilterPart_not_dropped(cfg, st, st8, packet, mono_now, wall_now) ==
    IF ~_matches_hand_filter(cfg, packet.side)
    THEN Ran("loop", [st8 EXCEPT !.packets_filtered = @ + 1], st, None, <<>>, FALSE)
    ELSE PacketsPart(cfg, st, st8, packet, mono_now, wall_now)

\* iter_events, lines 221-259, up to the next yield
FilterPart(cfg, st, st8, packet, mono_now, wall_now) ==
    IF ~_matches_hand_filter(cfg, packet.side)
    THEN Ran("loop", [st8 EXCEPT !.packets_filtered = @ + 1, !.dropped_lines = @ + 1],
             st, None, <<>>, FALSE)
    ELSE PacketsPart(cfg, st, st8, packet, mono_now, wall_now)

\* iter_events, lines 217-259, up to the next yield: parsed is what
\* _parse_with_policy gave
AfterParse(cfg, st, parsed, mono_now, wall_now) ==
    IF parsed.raised # ""
    THEN Ran("raised", parsed.stats, st, None, <<>>, FALSE)
    ELSE IF IsNone(parsed.packet)
    THEN Ran("loop", parsed.stats, st, None, <<>>, FALSE)
    ELSE FilterPart(cfg, st, parsed.stats, Val(parsed.packet), mono_now, wall_now)

\* iter_events, lines 207-259: one line is pulled and handled up to the next yield
LoopBody(cfg, st, st8, line, mono_now, wall_now) ==
    AfterParse(cfg, st,
               _parse_with_policy(cfg, [st8 EXCEPT !.lines_received = @ + 1], line),
               mono_now, wall_now)

\* What the client knows of a pulled line: whether parse_line rejects it, and the
\* side and kind of its packet
Verdict(line) ==
    IF ParsedLines(line).error # ""
    THEN [bad |-> TRUE, side |-> "", kind |-> ""]
    ELSE [bad |-> FALSE, side |-> Val(ParsedLines(line).packet).side,
          kind |-> Val(ParsedLines(line).packet).kind]

\* the hand filter excludes the side
Excluded(cfg, side) ==
    \/ cfg.hand_filter = HandFilter_LEFT /\ side = RIGHT
    \/ cfg.hand_filter = HandFilter_RIGHT /\ side = LEFT

\* the events a run yielded, each with the number of the line it comes from
Tagged(yielded, n) ==
    [i \in 1..Len(yielded) |-> [line |-> n, kind |-> yielded[i].kind, event |-> yielded[i].event]]
Untagged(evs) == [i \in 1..Len(evs) |-> [kind |-> evs[i].kind, event |-> evs[i].event]]

\* ref: two more clients of the same configuration that read the same clock
\* values; ref.wellformed is given the pulled lines without the malformed ones,
\* ref.admitted the pulled lines without those whose packet the hand filter
\* excludes.  rf is one of them, r what its generator gave.
RefRan(rf, r) == [state |-> r.state, events |-> rf.events \o r.yielded]

RefPulled(cfg, st8, line, mono_now, wall_now) ==
    [wellformed |->
        IF Verdict(line).bad THEN ref.wellformed
        ELSE RefRan(ref.wellformed,
                    LoopBody(cfg, ref.wellformed.state, st8, line, mono_now, wall_now)),
     admitted |->
        IF Excluded(cfg, Verdict(line).side) THEN ref.admitted
        ELSE RefRan(ref.admitted,
                    LoopBody(cfg, ref.admitted.state, st8, line, mono_now, wall_now))]

RefResumed(cfg, st8, packet, mono_now, wall_now) ==
    [wellformed |-> RefRan(ref.wellformed,
                           FramesPart(cfg, ref.wellformed.state, st8, packet, mono_now, wall_now)),
     admitted |-> RefRan(ref.admitted,
                         FramesPart(cfg, ref.admitted.state, st8, packet, mono_now, wall_now))]

\* HTSClient(config): the client is constructed, iter_events not yet called
Constructed(cfg) ==
    /\ config = cfg
    /\ stats = ClientStats
    /\ pc = "idle"
    /\ pending = None
    /\ events = <<>>
    /\ pulled = <<>>
    /\ clock = 0
    /\ ref = [wellformed |-> [state |-> InitState, events |-> <<>>],
              admitted |-> [state |-> InitState, events |-> <<>>]]
    /\ mark = NoMark
    /\ runner = NoRun
    /\ made = NoMade

Configs ==
    {HTSClientConfig(o, f, e, w) :
        o \in StreamOutput, f \in HandFilter, e \in ErrorPolicy, w \in BOOLEAN}

InitClient ==
    \E cfg \in Configs :
        /\ InitAssembler(Callers(LEFT, {None}, {None}), cfg.include_wall_time)
        /\ ParserIdle
        /\ TransportIdle
        /\ ToolsIdle
        /\ Constructed(cfg)

\* the generator ran and gave r; n is the number of the line in hand
Stepped(r, n, mono_now, refran) ==
    /\ pc' = r.pc
    /\ stats' = r.stats
    /\ state' = r.state
    /\ pending' = r.pending
    /\ events' = events \o Tagged(r.yielded, n)
    /\ clock' = IF r.read THEN mono_now ELSE clock
    /\ ref' = refran
    /\ UNCHANGED <<config, include_wall_time, callerVars, parserVars>>

\* the values monotonic_ns() can give at its next reading
ClockNow == {t \in Ts : clock <= t /\ t <= clock + 1}

\* iter_events is called and the receiver opened (lines 205-206)
Begins ==
    /\ config # None
    /\ pc = "idle"
    /\ pc' = "loop"
    /\ UNCHANGED <<config, stats, pending, events, pulled, clock, ref, assemblerVars, parserVars>>

IterEvents == Begins /\ UNCHANGED <<mark, runner, made, transportVars, toolVars>>

\* the receiver gives a line: the loop body runs up to its next yield, or to the
\* end of the iteration for a line that yields nothing
Pulls ==
    /\ pc = "loop"
    /\ Len(pulled) < MaxLines
    /\ \E line \in ClientLines, mono_now \in ClockNow, wall_now \in WallNow :
        /\ pulled' = Append(pulled, Verdict(line))
        /\ Stepped(LoopBody(config, state, stats, line, mono_now, wall_now),
                   Len(pulled) + 1, mono_now,
                   RefPulled(config, stats, line, mono_now, wall_now))

PullLine == Pulls /\ UNCHANGED <<mark, runner, made, transportVars, toolVars>>

\* the consumer resumes the generator suspended at `yield packet`
Resumes ==
    /\ pc = "packet"
    /\ \E mono_now \in ClockNow, wall_now \in WallNow :
        /\ pulled' = pulled
        /\ Stepped(FramesPart(config, state, stats, Val(pending), mono_now, wall_now),
                   Len(pulled), mono_now,
                   RefResumed(config, stats, Val(pending), mono_now, wall_now))

Resume == Resumes /\ UNCHANGED <<mark, runner, made, transportVars, toolVars>>

\* the receiver has no more lines: the loop and the iteration end
Ends ==
    /\ pc = "loop"
    /\ pc' = "done"
    /\ UNCHANGED <<config, stats, pending, events, pulled, clock, ref, assemblerVars, parserVars>>

Exhausted == Ends /\ UNCHANGED <<mark, runner, made, transportVars, toolVars>>

NextClient == IterEvents \/ PullLine \/ Resume \/ Exhausted

SpecClient == InitClient /\ [][NextClient]_vars

----------------------------------------------------------------------------
(* client.py: reset_stats, called between two runs of the generator or by the *)
(* log hook while the generator handles a line.                               *)

Marked(lines, inside) == [pulled |-> lines, events |-> Len(events), inside |-> inside]

\* HTSClient.reset_stats, called while the generator is suspended or has ended
ResetStats ==
    /\ config # None
    /\ stats # ClientStats \/ mark.inside
    /\ stats' = ClientStats
    /\ mark' = Marked(Len(pulled), FALSE)
    /\ UNCHANGED <<config, pc, pending, events, pulled, clock, ref, runner, made, assemblerVars, parserVars, transportVars, toolVars>>

\* the log hook calls reset_stats when it is given RECEIVED_LINE (lines 208-216):
\* the rest of the loop body starts from ClientStats()
ResetOnReceived(cfg, st, line, mono_now, wall_now) ==
    AfterParse(cfg, st, _parse_with_policy(cfg, ClientStats, line), mono_now, wall_now)

\* the log hook calls reset_stats when it is given EMITTED_PACKET or EMITTED_FRAME
\* (lines 237-243, 252-258), just before the yield: r is what the generator gave
ResetOnEmitted(r) == [r EXCEPT !.stats = ClientStats]

\* a line is pulled and the log hook calls reset_stats while it is handled.  A
\* reset in the hook's last call for a line that yields nothing is a ResetStats
\* after PullLine.
PullLineReset ==
    /\ pc = "loop"
    /\ Len(pulled) < MaxLines
    /\ \E line \in ClientLines, mono_now \in ClockNow, wall_now \in WallNow :
        /\ pulled' = Append(pulled, Verdict(line))
        /\ mark' = Marked(Len(pulled) + 1, TRUE)
        /\ \/ Stepped(ResetOnReceived(config, state, line, mono_now, wall_now),
                      Len(pulled) + 1, mono_now,
                      RefPulled(config, stats, line, mono_now, wall_now))
           \/ /\ LoopBody(config, state, stats, line, mono_now, wall_now).yielded # <<>>
              /\ Stepped(ResetOnEmitted(LoopBody(config, state, stats, line, mono_now, wall_now)),
                         Len(pulled) + 1, mono_now,
                         RefPulled(config, stats, line, mono_now, wall_now))
    /\ UNCHANGED <<runner, made, transportVars, toolVars>>

\* the generator is resumed and the log hook calls reset_stats when it is given
\* EMITTED_FRAME
ResumeReset ==
    /\ pc = "packet"
    /\ \E mono_now \in ClockNow, wall_now \in WallNow :
        /\ pulled' = pulled
        /\ mark' = Marked(Len(pulled), TRUE)
        /\ FramesPart(config, state, stats, Val(pending), mono_now, wall_now).yielded # <<>>
        /\ Stepped(ResetOnEmitted(FramesPart(config, state, stats, Val(pending), mono_now, wall_now)),
                   Len(pulled), mono_now,
                   RefResumed(config, stats, Val(pending), mono_now, wall_now))
    /\ UNCHANGED <<runner, made, transportVars, toolVars>>

\* the configurations with a one-sided hand filter: there every counter moves
InitStats ==
    \E cfg \in {c \in Configs : c.include_wall_time /\ c.hand_filter = HandFilter_LEFT} :
        /\ InitAssembler(Callers(LEFT, {None}, {None}), TRUE)
        /\ ParserIdle
        /\ TransportIdle
        /\ ToolsIdle
        /\ Constructed(cfg)

NextStats ==
    IterEvents \/ PullLine \/ Resume \/ Exhausted \/ ResetStats \/ PullLineReset \/ ResumeReset

SpecStats == InitStats /\ [][NextStats]_vars

----------------------------------------------------------------------------
(* client.py: one HTSClient over several iterations.  iter_events may be      *)
(* called again when an iteration has ended; every iteration makes its own    *)
(* receiver and runs inside `with receiver`.  Here log is the list of what    *)
(* the client did with its receivers: "__enter__", "line" (the iterator of    *)
(* iter_lines gave a line), "StopIteration" (it ended) and "__exit__".        *)

\* the iterations of one client: a first and a later one
Iterations == {1, 2}

Entered(calls) == Len(SelectSeq(calls, LAMBDA c : c = "__enter__"))

\* fault: every iteration starts with a new assembler
M_Starts_new_assembler ==
    /\ config # None
    /\ pc \in {"idle", "done", "raised"}
    /\ pc' = "loop"
    /\ state' = InitState
    /\ UNCHANGED <<config, stats, pending, events, pulled, clock, ref, include_wall_time,
                   callerVars, parserVars>>

\* iter_events is called, for the first time or after an iteration has ended,
\* up to the loop: the assembler is the one made in __init__ (lines 192-195)
Starts ==
    /\ config # None
    /\ pc \in {"idle", "done", "raised"}
    /\ pc' = "loop"
    /\ UNCHANGED <<config, stats, pending, events, pulled, clock, ref, assemblerVars, parserVars>>

\* fault: an exception leaves the receiver open
M_WithReceiver_no_exit(at) == <<"line">>

\* `with receiver` around the loop (lines 205-207): what is done with the
\* receiver when a line is pulled and the generator runs to `at`
WithReceiver(at) == IF at = "raised" THEN <<"line", "__exit__">> ELSE <<"line">>

\* iter_events(), lines 205-206: the receiver is made and entered
Enter ==
    /\ Entered(log) < Cardinality(Iterations)
    /\ Starts
    /\ log' = Append(log, "__enter__")
    /\ UNCHANGED <<mark, runner, made, rx, net, toolVars>>

\* the receiver gives a line
ReceiverLine ==
    /\ Pulls
    /\ log' = log \o WithReceiver(pc')
    /\ UNCHANGED <<mark, runner, made, rx, net, toolVars>>

\* the receiver has no more lines: the loop ends and the with statement exits
ReceiverEnds ==
    /\ Ends
    /\ log' = log \o <<"StopIteration", "__exit__">>
    /\ UNCHANGED <<mark, runner, made, rx, net, toolVars>>

\* reset_stats is called between two iterations
ResetBetween == pc \in {"done", "raised"} /\ ResetStats

NextLifetime == Enter \/ ReceiverLine \/ Resume \/ ReceiverEnds \/ ResetBetween

\* the strict configurations without a hand filter: there an iteration ends by
\* exhaustion and by ParseError
InitLifetime ==
    \E cfg \in {c \in Configs : /\ c.include_wall_time /\ c.hand_filter = HandFilter_BOTH
                                /\ c.error_policy = STRICT} :
        /\ InitAssembler(Callers(LEFT, {None}, {None}), TRUE)
        /\ ParserIdle
        /\ TransportIdle
        /\ ToolsIdle
        /\ Constructed(cfg)

SpecLifetime == InitLifetime /\ [][NextLifetime]_vars

----------------------------------------------------------------------------
(* client.py: HTSClient.run.  The for loop of run drives the generator of     *)
(* iter_events; each event it gives is passed to the callback.                *)

\* the largest max_events a caller passes
MaxCap == 2

MaxEventsArgs == {None} \cup {Some(n) : n \in 0..MaxCap}

\* what a callback does: it returns, raises an Exception, or raises a
\* BaseException that is no Exception (KeyboardInterrupt, SystemExit)
CallbackOutcomes == {"returns", "Exception", "BaseException"}

\* run, the for statement (line 282): the generator ran.  It gave an event, or
\* raised ParseError, or went on without one.
Fetched(yielded, at) ==
    IF yielded THEN [runner EXCEPT !.phase = "callback"]
    ELSE IF at = "raised" THEN [runner EXCEPT !.phase = "raised", !.raised = "ParseError"]
    ELSE runner

\* run, lines 301-304: the callback returned
Processed(r) ==
    [r EXCEPT !.processed = @ + 1,
              !.phase = IF ~IsNone(r.max_events) /\ r.processed + 1 >= Val(r.max_events)
                        THEN "returned" ELSE "iterating",
              !.returned = IF ~IsNone(r.max_events) /\ r.processed + 1 >= Val(r.max_events)
                           THEN Some(r.processed + 1) ELSE None]

\* fault: every raise of the callback is wrapped
M_Failed_always_wrapped(r, outcome_) ==
    [r EXCEPT !.phase = "raised",
              !.raised = IF outcome_ = "Exception" THEN "ClientCallbackError" ELSE outcome_]

\* run, lines 284-299: the callback raised
Failed(r, outcome_) ==
    [r EXCEPT !.phase = "raised",
              !.raised = IF outcome_ = "Exception" /\ r.wrap_callback_exceptions
                         THEN "ClientCallbackError" ELSE outcome_]

\* run(callback, max_events=n, wrap_callback_exceptions=wrap) is called and the
\* for statement starts the generator
Run ==
    /\ runner.phase = "none"
    /\ Begins
    /\ \E n \in MaxEventsArgs, wrap \in BOOLEAN :
        runner' = [runner EXCEPT !.phase = "iterating", !.max_events = n,
                                 !.wrap_callback_exceptions = wrap]
    /\ UNCHANGED <<mark, made, transportVars, toolVars>>

RunPull ==
    /\ runner.phase = "iterating"
    /\ Pulls
    /\ runner' = Fetched(Len(events') > Len(events), pc')
    /\ UNCHANGED <<mark, made, transportVars, toolVars>>

RunResume ==
    /\ runner.phase = "iterating"
    /\ Resumes
    /\ runner' = Fetched(Len(events') > Len(events), pc')
    /\ UNCHANGED <<mark, made, transportVars, toolVars>>

\* the generator ends: run returns processed (line 305)
RunEnd ==
    /\ runner.phase = "iterating"
    /\ Ends
    /\ runner' = [runner EXCEPT !.phase = "returned", !.returned = Some(runner.processed)]
    /\ UNCHANGED <<mark, made, transportVars, toolVars>>

\* the callback is called with the event and returns (lines 283-304)
CallbackReturns ==
    /\ runner.phase = "callback"
    /\ runner' = Processed([runner EXCEPT !.invoked = @ + 1])
    /\ stats' = [stats EXCEPT !.callbacks_invoked = @ + 1]
    /\ UNCHANGED <<config, pc, pending, events, pulled, clock, ref, mark, made, assemblerVars, parserVars, transportVars, toolVars>>

\* the callback is called with the event and raises (lines 283-299): only an
\* Exception is caught
CallbackRaises ==
    /\ runner.phase = "callback"
    /\ \E outcome_ \in CallbackOutcomes \ {"returns"} :
        /\ runner' = Failed([runner EXCEPT !.invoked = @ + 1, !.thrown = outcome_], outcome_)
        /\ stats' = IF outcome_ = "Exception"
                    THEN [stats EXCEPT !.callback_errors = @ + 1] ELSE stats
    /\ UNCHANGED <<config, pc, pending, events, pulled, clock, ref, mark, made, assemblerVars, parserVars, transportVars, toolVars>>

InitRun ==
    \E cfg \in {c \in Configs : c.include_wall_time /\ c.hand_filter = HandFilter_BOTH} :
        /\ InitAssembler(Callers(LEFT, {None}, {None}), TRUE)
        /\ ParserIdle
        /\ TransportIdle
        /\ ToolsIdle
        /\ Constructed(cfg)

NextRun == Run \/ RunPull \/ RunResume \/ RunEnd \/ CallbackReturns \/ CallbackRaises

SpecRun == InitRun /\ [][NextRun]_vars

----------------------------------------------------------------------------
(* client.py: HTSClientConfig.__post_init__, and the client built on the      *)
(* configuration.                                                             *)

\* the arguments a caller constructs an HTSClientConfig with; timeout_s and
\* reconnect_delay_s in seconds
Hosts == {"", "0.0.0.0"}
Ports == {-1, 0, 9000, 65535, 65536}
Timeouts == {-1, 0, 1}
ReconnectDelays == {-1, 0, 1}

\* fault: a timeout_s of 0 is accepted
M___post_init___zero_timeout(host, port, timeout_s, reconnect_delay_s) ==
    IF host = "" THEN "ClientConfigurationError"
    ELSE IF port < 0 \/ port > 65535 THEN "ClientConfigurationError"
    ELSE IF timeout_s < 0 THEN "ClientConfigurationError"
    ELSE IF reconnect_delay_s < 0 THEN "ClientConfigurationError"
    ELSE ""

\* HTSClientConfig.__post_init__: the exception raised ("" when it returns)
__post_init__(host, port, timeout_s, reconnect_delay_s) ==
    IF host = "" THEN "ClientConfigurationError"
    ELSE IF port < 0 \/ port > 65535 THEN "ClientConfigurationError"
    ELSE IF timeout_s <= 0 THEN "ClientConfigurationError"
    ELSE IF reconnect_delay_s < 0 THEN "ClientConfigurationError"
    ELSE ""

\* HTSClientConfig(host=..., ...) has raised `error` or not; if not, the caller
\* goes on to HTSClient(config)
Configured(error, cfg) ==
    /\ config' = IF error = "" THEN cfg ELSE None
    /\ ref' = IF error = ""
              THEN [wellformed |-> [state |-> InitState, events |-> <<>>],
                    admitted |-> [state |-> InitState, events |-> <<>>]]
              ELSE ref

Construct ==
    /\ ~made.done
    /\ \E host \in Hosts, port \in Ports, timeout_s \in Timeouts,
          reconnect_delay_s \in ReconnectDelays, output \in StreamOutput :
        /\ made' = [done |-> TRUE, host |-> host, port |-> port, timeout_s |-> timeout_s,
                    reconnect_delay_s |-> reconnect_delay_s,
                    raised |-> __post_init__(host, port, timeout_s, reconnect_delay_s)]
        /\ Configured(__post_init__(host, port, timeout_s, reconnect_delay_s),
                      HTSClientConfig(output, HandFilter_BOTH, STRICT, TRUE))
    /\ UNCHANGED <<stats, pc, pending, events, pulled, clock, mark, runner, assemblerVars,
                   parserVars, transportVars, toolVars>>

InitConfig == InitWith(Callers(LEFT, {None}, {None}), TRUE)

NextConfig == Construct \/ IterEvents \/ PullLine \/ Resume \/ Exhausted

SpecConfig == InitConfig /\ [][NextConfig]_vars

----------------------------------------------------------------------------
(* transport.py: UDPLineReceiver, TCPServerLineReceiver, TCPClientLineReceiver. *)
(* A receiver is a record rx; what the sockets give is chosen when they are     *)
(* read.  Bytes are one-character strings.                                      *)

UDP == "udp"
TCP_SERVER == "tcp_server"
TCP_CLIENT == "tcp_client"
ReceiverKinds == {UDP, TCP_SERVER, TCP_CLIENT}

\* the peers that connect to a TCP server
ClientIds == {1, 2}

\* the connections the server of a TCP client grants
MaxConnections == 2

\* TCPServerConfig.max_line_bytes and TCPClientConfig.max_line_bytes of the model
max_line_bytes == 4
\* the size passed to socket.recv
RecvBytes == 4

NL == "\n"

\* what a read of a socket gives is a byte string, or one of these exceptions
TimeoutError == <<"TimeoutError">>
BlockingIOError == <<"BlockingIOError">>
OSError == <<"OSError">>
Letters == <<"a", "b", "c", "d", "e", "f", "g", "h">>

\* the byte streams sent on connection c, the first the most varied; the lines of
\* a connection are made of two letters of its own
StreamsOf(p, q) ==
    { <<p, NL>>, <<p, NL, q, NL>>, <<p, q, NL>>, <<p, NL, q>>,
      <<p, p, q, NL>>, <<p, p, q, q, NL>> }
LaterStreamsOf(p, q) == { <<p, NL>>, <<p, NL, q>>, <<p, NL, q, NL>> }
Streams(c) ==
    IF c = 1 THEN StreamsOf(Letters[1], Letters[2])
    ELSE LaterStreamsOf(Letters[2 * c - 1], Letters[2 * c])

\* the datagrams a UDP receiver is sent, and their texts
MaxDatagrams == 2
Datagrams == { <<NL>>, <<"a", NL>>, <<"a", NL, "b", NL>>, <<" ", "b", " ">> }

\* [line.strip() for line in text.splitlines() if line.strip()]
StrippedLines(data) ==
    SelectSeq([i \in 1..Len(split_on(data, NL)) |-> strip(split_on(data, NL)[i])],
              LAMBDA l : l # <<>>)

\* the lines a byte string holds, each followed by a newline, stripped; and the
\* bytes after its last newline
CompleteLines(bytes) ==
    [i \in 1..(Len(split_on(bytes, NL)) - 1) |-> strip(split_on(bytes, NL)[i])]
Remainder(bytes) == split_on(bytes, NL)[Len(split_on(bytes, NL))]

\* UDPLineReceiver(config), TCPServerLineReceiver(config), TCPClientLineReceiver(config).
\* socket: _socket / _server_socket is not None.  clients, buffers: _client_sockets
\* and _client_buffers of a TCP server, None where the dictionary has no key.  buffer: _buffer of a TCP client.
\* it: the generator iter_lines() gave: "none", "created", "suspended", "ended",
\* "raised".  busy: the call in progress: "" (none), "recv_line" (the loop of a
\* recv_line call), "head" (next() of the generator, at the head of its loop),
\* "next" (next() of the generator, in the loop of its recv_line call).
Receiver(kind) ==
    [kind |-> kind, socket |-> FALSE, pending_lines |-> <<>>, buffer |-> <<>>,
     clients |-> {}, buffers |-> [c \in ClientIds |-> None], it |-> "none", busy |-> ""]

\* what a call, or one turn of its loop, gives: the receiver, the outcome
\* ("return", "loop" for another turn, or the exception raised) and the line
Gave(r, out, line) == [rx |-> r, out |-> out, line |-> line]

\* fault: open on an open receiver replaces the socket
M_open_again(r, ok) ==
    IF ~ok THEN Gave(r, "OSError", <<>>)
    ELSE Gave([r EXCEPT !.socket = TRUE], "return", <<>>)

\* open() of the three receivers; ok: bind, listen and connect succeed
open(r, ok) ==
    IF r.socket THEN Gave(r, "RuntimeError", <<>>)
    ELSE IF ~ok THEN Gave(r, "OSError", <<>>)
    ELSE Gave([r EXCEPT !.socket = TRUE], "return", <<>>)

\* fault: close() keeps the bytes buffered
M_close_keeps_bytes(r) ==
    [r EXCEPT !.socket = FALSE, !.pending_lines = <<>>, !.clients = {}]

\* close() of the three receivers
close(r) ==
    [r EXCEPT !.socket = FALSE, !.pending_lines = <<>>, !.buffer = <<>>,
              !.clients = {}, !.buffers = [c \in ClientIds |-> None]]

\* recv_line up to its loop: UDP lines 165-169, TCP server 340-344, TCP client 451-452
Entry(r) ==
    IF ~r.socket THEN Gave(r, "TransportClosedError", <<>>)
    ELSE IF r.kind # TCP_CLIENT /\ r.pending_lines # <<>>
    THEN Gave([r EXCEPT !.pending_lines = Tail(@)], "return", Head(r.pending_lines))
    ELSE Gave(r, "loop", <<>>)

\* fault: only the first line of a datagram is kept
M_UdpTurn_first_line_only(r, ev) ==
    IF ev = TimeoutError THEN Gave(r, "TransportTimeoutError", <<>>)
    ELSE IF StrippedLines(ev) = <<>> THEN Gave(r, "loop", <<>>)
    ELSE Gave(r, "return", Head(StrippedLines(ev)))

\* UDPLineReceiver.recv_line, one turn of its loop (lines 171-183): recvfrom
\* times out or gives the text of a datagram
UdpTurn(r, ev) ==
    IF ev = TimeoutError THEN Gave(r, "TransportTimeoutError", <<>>)
    ELSE IF StrippedLines(ev) = <<>> THEN Gave(r, "loop", <<>>)
    ELSE Gave([r EXCEPT !.pending_lines = @ \o Tail(StrippedLines(ev))],
              "return", Head(StrippedLines(ev)))

\* TCPClientLineReceiver.recv_line, one turn of its loop (lines 454-474): recv
\* times out, or gives a chunk, empty when the server has closed the connection
TcpClientTurn(r, ev) ==
    IF Find(r.buffer, NL) > 0
    THEN Gave([r EXCEPT !.buffer = SubSeq(@, Find(@, NL) + 1, Len(@))],
              "return", strip(SubSeq(r.buffer, 1, Find(r.buffer, NL) - 1)))
    ELSE IF Len(r.buffer) >= max_line_bytes
    THEN Gave([r EXCEPT !.buffer = <<>>], "TransportDisconnectedError", <<>>)
    ELSE IF ev = TimeoutError THEN Gave(r, "TransportTimeoutError", <<>>)
    ELSE IF ev = <<>> THEN Gave(close(r), "TransportDisconnectedError", <<>>)
    ELSE Gave([r EXCEPT !.buffer = @ \o ev], "loop", <<>>)

\* the turn of TcpClientTurn reads the socket
TcpClientReads(r) == Find(r.buffer, NL) = 0 /\ Len(r.buffer) < max_line_bytes

\* TCPServerLineReceiver._close_client_socket
_close_client_socket(r, c) ==
    [r EXCEPT !.clients = @ \ {c}, !.buffers[c] = None]

\* _drain_ready_client as it would be with the size test applied to the
\* unterminated remainder, after the complete lines are enqueued
DrainLinesFirst(r, c, ev) ==
    IF IsNone(r.buffers[c]) THEN [rx |-> r, disconnected |-> TRUE]
    ELSE IF ev = BlockingIOError THEN [rx |-> r, disconnected |-> FALSE]
    ELSE IF ev = OSError \/ ev = <<>>
    THEN [rx |-> _close_client_socket(r, c), disconnected |-> TRUE]
    ELSE IF Len(Remainder(Val(r.buffers[c]) \o ev)) >= max_line_bytes
    THEN [rx |-> _close_client_socket(
                    [r EXCEPT !.pending_lines = @ \o CompleteLines(Val(r.buffers[c]) \o ev)], c),
          disconnected |-> TRUE]
    ELSE [rx |-> [r EXCEPT !.pending_lines = @ \o CompleteLines(Val(r.buffers[c]) \o ev),
                           !.buffers[c] = Some(Remainder(Val(r.buffers[c]) \o ev))],
          disconnected |-> FALSE]

\* TCPServerLineReceiver._drain_ready_client: recv raises BlockingIOError or
\* OSError, or gives a chunk, empty when the client has closed the connection
_drain_ready_client(r, c, ev) ==
    IF IsNone(r.buffers[c]) THEN [rx |-> r, disconnected |-> TRUE]
    ELSE IF ev = BlockingIOError THEN [rx |-> r, disconnected |-> FALSE]
    ELSE IF ev = OSError \/ ev = <<>>
    THEN [rx |-> _close_client_socket(r, c), disconnected |-> TRUE]
    ELSE IF Len(Val(r.buffers[c]) \o ev) >= max_line_bytes
    THEN [rx |-> _close_client_socket(r, c), disconnected |-> TRUE]
    ELSE [rx |-> [r EXCEPT !.pending_lines = @ \o CompleteLines(Val(r.buffers[c]) \o ev),
                           !.buffers[c] = Some(Remainder(Val(r.buffers[c]) \o ev))],
          disconnected |-> FALSE]

\* TCPServerLineReceiver._accept_ready_clients: the clients whose connections wait
_accept_ready_clients(r, accepts) ==
    [r EXCEPT !.clients = @ \cup accepts,
              !.buffers = [c \in ClientIds |-> IF c \in accepts THEN Some(<<>>) ELSE @[c]]]

\* TCPServerLineReceiver.recv_line, lines 372-376: d is what draining gave
ServerDrained(d) ==
    IF d.rx.pending_lines # <<>>
    THEN Gave([d.rx EXCEPT !.pending_lines = Tail(@)], "return", Head(d.rx.pending_lines))
    ELSE IF d.disconnected /\ d.rx.clients = {}
    THEN Gave(d.rx, "TransportDisconnectedError", <<>>)
    ELSE Gave(d.rx, "loop", <<>>)

\* TCPServerLineReceiver.recv_line, lines 368-370: the ready clients are drained
\* one after the other; ready is a sequence of [c, ev]
RECURSIVE DrainReady(_, _)
DrainReady(d, ready) ==
    IF ready = <<>> THEN d
    ELSE DrainReady(
            [rx |-> _drain_ready_client(d.rx, ready[1].c, ready[1].ev).rx,
             disconnected |->
                _drain_ready_client(d.rx, ready[1].c, ready[1].ev).disconnected
                \/ d.disconnected],
            Tail(ready))

\* TCPServerLineReceiver.recv_line, one turn of its loop (lines 346-376): select
\* finds the server socket ready with the connections of `accepts`, and the
\* clients of `ready`, each with what its recv gives
ServerTurn(r, accepts, ready) ==
    IF accepts = {} /\ ready = <<>> THEN Gave(r, "TransportTimeoutError", <<>>)
    ELSE ServerDrained(
            DrainReady([rx |-> _accept_ready_clients(r, accepts), disconnected |-> FALSE],
                       ready))

\* iter_lines catches the exception of recv_line and goes on: UDP line 196,
\* TCP server line 389, TCP client lines 488-492
Caught(kind, out) ==
    \/ out = "TransportTimeoutError"
    \/ out = "TransportDisconnectedError" /\ kind # UDP

\* a recv_line call of the caller, after what it gave
Direct(res) ==
    [res.rx EXCEPT !.busy = IF res.out = "loop" THEN "recv_line" ELSE ""]

\* the generator of iter_lines, after what its recv_line call gave
Iterated(res) ==
    IF res.out = "loop" THEN [res.rx EXCEPT !.busy = "next"]
    ELSE IF res.out = "return" THEN [res.rx EXCEPT !.busy = "", !.it = "suspended"]
    ELSE IF Caught(res.rx.kind, res.out) THEN [res.rx EXCEPT !.busy = "head"]
    ELSE [res.rx EXCEPT !.busy = "", !.it = "raised"]

\* what the caller has seen.  op, out, line: the last call that came back, what it
\* gave ("return", "StopIteration" or the exception) and its line.  returned: the
\* lines recv_line and the generator gave.  received: per client of a TCP server,
\* the bytes recv gave.  last: the last of the caller's open and close calls that
\* succeeded.  closed: close was called.  sleeps: the sleeps of iter_lines.
\* read: recv_line or next() of the generator was called.
NoLog ==
    [op |-> "", out |-> "", line |-> <<>>, returned |-> <<>>,
     received |-> [c \in ClientIds |-> <<>>], last |-> "", closed |-> FALSE, sleeps |-> 0,
     read |-> FALSE]

\* no socket exists.  sent (a ghost): the datagrams a UDP receiver has read, the
\* streams of the connections of a TCP client
NoNet ==
    [conns |-> 0, stream |-> <<>>, sent |-> <<>>, peer |-> [c \in ClientIds |-> "new"],
     tosend |-> [c \in ClientIds |-> <<>>]]

Came(l, op, out, line) ==
    [l EXCEPT !.op = op, !.out = out, !.line = line,
              !.returned = IF out = "return" /\ op \in {"recv_line", "next"}
                              THEN Append(@, line) ELSE @]

\* the log after a turn of recv_line called by `busy`
Logged(l, busy, res) ==
    IF res.out = "loop" THEN l
    ELSE IF busy = "recv_line" THEN Came(l, "recv_line", res.out, res.line)
    ELSE IF ~Caught(res.rx.kind, res.out) THEN Came(l, "next", res.out, res.line)
    ELSE IF res.rx.kind = TCP_CLIENT /\ res.out = "TransportDisconnectedError"
    THEN [l EXCEPT !.sleeps = Min(@ + 1, MaxConnections)]
    ELSE l

After(busy, res) == IF busy = "recv_line" THEN Direct(res) ELSE Iterated(res)

otherVars == <<assemblerVars, parserVars, clientVars, toolVars>>

\* the server a TCP client connects to grants MaxConnections connections; on
\* connection n it sends one of Streams(n) and closes
Granted(n, r, ok) == ok /\ (r.kind = TCP_CLIENT => n.conns < MaxConnections)

Connected(n, r, res, s) ==
    IF r.kind = TCP_CLIENT /\ res.out = "return"
    THEN [n EXCEPT !.conns = @ + 1, !.stream = s, !.sent = Append(@, s)]
    ELSE n

\* receiver.open()
Open ==
    /\ rx.busy = ""
    /\ \E ok \in BOOLEAN : \E s \in Streams(Min(net.conns + 1, MaxConnections)) :
       \E res \in {open(rx, Granted(net, rx, ok))} :
          /\ rx' = res.rx
          /\ net' = Connected(net, rx, res, s)
          /\ log' = [Came(log, "open", res.out, <<>>)
                       EXCEPT !.last = IF res.out = "return" THEN "open" ELSE @]
    /\ UNCHANGED otherVars

\* the sockets of the receiver are closed: its peers see their connections end
Hung(n) ==
    [n EXCEPT !.stream = <<>>,
              !.peer = [c \in ClientIds |-> IF @[c] = "new" THEN "new" ELSE "gone"],
              !.tosend = [c \in ClientIds |-> <<>>]]

\* receiver.close()
Close ==
    /\ rx.busy = ""
    /\ rx' = close(rx)
    /\ net' = Hung(net)
    /\ log' = [Came(log, "close", "return", <<>>) EXCEPT !.last = "close", !.closed = TRUE]
    /\ UNCHANGED otherVars

\* a peer connects to the listening TCP server and will send one of its streams
Connect ==
    /\ rx.kind = TCP_SERVER /\ rx.socket
    /\ \E c \in ClientIds : \E s \in Streams(c) :
          /\ net.peer[c] = "new"
          /\ net' = [net EXCEPT !.peer[c] = "waiting", !.tosend[c] = s]
    /\ UNCHANGED <<rx, log, otherVars>>

\* receiver.recv_line(), up to its loop
RecvLine ==
    /\ rx.busy = ""
    /\ rx' = Direct(Entry(rx))
    /\ log' = Logged([log EXCEPT !.read = TRUE], "recv_line", Entry(rx))
    /\ UNCHANGED <<net, otherVars>>

\* one turn of the loop of UDPLineReceiver.recv_line
UdpReceive ==
    /\ rx.kind = UDP /\ rx.busy \in {"recv_line", "next"}
    /\ \E ev \in {TimeoutError} \cup (IF net.conns < MaxDatagrams THEN Datagrams ELSE {}) :
          /\ rx' = After(rx.busy, UdpTurn(rx, ev))
          /\ log' = Logged(log, rx.busy, UdpTurn(rx, ev))
          /\ net' = IF ev = TimeoutError THEN net
                    ELSE [net EXCEPT !.conns = @ + 1, !.sent = Append(@, ev)]
    /\ UNCHANGED otherVars

\* the chunks recv may give when `bytes` are still to come: some of the first
\* RecvBytes of them, or none of them when the peer has sent all and closed
Chunks(bytes) == { SubSeq(bytes, 1, k) : k \in (IF bytes = <<>> THEN 0 ELSE 1)..Min(Len(bytes), RecvBytes) }

Drop(bytes, k) == SubSeq(bytes, k + 1, Len(bytes))

\* one turn of the loop of TCPClientLineReceiver.recv_line
TcpClientReceive ==
    /\ rx.kind = TCP_CLIENT /\ rx.busy \in {"recv_line", "next"}
    /\ \E ev \in {TimeoutError} \cup Chunks(net.stream) :
       \E res \in {TcpClientTurn(rx, ev)} :
          /\ rx' = After(rx.busy, res)
          /\ log' = Logged(log, rx.busy, res)
          /\ net' = IF TcpClientReads(rx) /\ ev # TimeoutError
                    THEN [net EXCEPT !.stream = Drop(@, Len(ev))]
                    ELSE net
    /\ UNCHANGED otherVars

\* what select may find ready among the clients: sequences of [c, ev], a client
\* at most once
ReadyOf(c, n) ==
    { [c |-> c, ev |-> ev] : ev \in {BlockingIOError, OSError} \cup Chunks(n.tosend[c]) }
RECURSIVE ReadySeqs(_, _)
ReadySeqs(cs, n) ==
    {<<>>} \cup UNION { { <<e>> \o t : e \in ReadyOf(c, n), t \in ReadySeqs(cs \ {c}, n) } : c \in cs }

\* the bytes of `ready` read from client c
RECURSIVE ReadFrom(_, _)
ReadFrom(ready, c) ==
    IF ready = <<>> THEN <<>>
    ELSE (IF ready[1].c = c /\ ready[1].ev \notin {BlockingIOError, OSError}
          THEN ready[1].ev ELSE <<>>) \o ReadFrom(Tail(ready), c)

\* the peers after a turn of the server that left it as r
Served(n, r, ready) ==
    [n EXCEPT !.peer = [c \in ClientIds |->
                          IF c \in r.clients THEN "connected"
                          ELSE IF @[c] = "connected" THEN "gone" ELSE @[c]],
              !.tosend = [c \in ClientIds |->
                          IF c \in r.clients THEN Drop(@[c], Len(ReadFrom(ready, c)))
                          ELSE IF n.peer[c] = "connected" THEN <<>> ELSE @[c]]]

Waiting(n) == { c \in ClientIds : n.peer[c] = "waiting" }

\* one turn of the loop of TCPServerLineReceiver.recv_line
ServerReceive ==
    /\ rx.kind = TCP_SERVER /\ rx.busy \in {"recv_line", "next"}
    /\ \E accepts \in SUBSET Waiting(net) : \E ready \in ReadySeqs(rx.clients, net) :
       \E res \in {ServerTurn(rx, accepts, ready)} :
          /\ rx' = After(rx.busy, res)
          /\ net' = Served(net, res.rx, ready)
          /\ log' = [Logged(log, rx.busy, res)
                       EXCEPT !.received = [c \in ClientIds |-> @[c] \o ReadFrom(ready, c)]]
    /\ UNCHANGED otherVars

\* receiver.iter_lines(): the generator is made, none of its code has run
IterLines ==
    /\ rx.busy = "" /\ rx.it = "none"
    /\ rx' = [rx EXCEPT !.it = "created"]
    /\ UNCHANGED <<net, log, otherVars>>

\* next() of the generator: it starts, or resumes after its yield
NextLine ==
    /\ rx.busy = "" /\ rx.it \in {"created", "suspended"}
    /\ rx' = [rx EXCEPT !.busy = "head"]
    /\ log' = [log EXCEPT !.read = TRUE]
    /\ UNCHANGED <<net, otherVars>>

\* the head of the loop of UDPLineReceiver.iter_lines and
\* TCPServerLineReceiver.iter_lines: the loop ends when the socket is None
LoopHead ==
    /\ rx.kind # TCP_CLIENT /\ rx.busy = "head"
    /\ IF ~rx.socket
       THEN /\ rx' = [rx EXCEPT !.busy = "", !.it = "ended"]
            /\ log' = Came(log, "next", "StopIteration", <<>>)
       ELSE /\ rx' = Iterated(Entry(rx))
            /\ log' = Logged(log, "next", Entry(rx))
    /\ UNCHANGED <<net, otherVars>>

\* TCPClientLineReceiver.iter_lines after open() gave res
Reopened(res) ==
    IF res.out = "return" THEN Iterated(Entry(res.rx))
    ELSE [res.rx EXCEPT !.busy = "", !.it = "raised"]

\* the head of the loop of TCPClientLineReceiver.iter_lines: the receiver is
\* opened when its socket is None
ClientLoopHead ==
    /\ rx.kind = TCP_CLIENT /\ rx.busy = "head"
    /\ IF ~rx.socket
       THEN \E ok \in BOOLEAN : \E s \in Streams(Min(net.conns + 1, MaxConnections)) :
            \E res \in {open(rx, Granted(net, rx, ok))} :
               /\ rx' = Reopened(res)
               /\ net' = Connected(net, rx, res, s)
               /\ log' = IF res.out = "return"
                         THEN Logged(log, "next", Entry(res.rx))
                         ELSE Came(log, "next", res.out, <<>>)
       ELSE /\ rx' = Iterated(Entry(rx))
            /\ log' = Logged(log, "next", Entry(rx))
            /\ net' = net
    /\ UNCHANGED otherVars

InitTransport ==
    /\ InitAssembler(Callers(LEFT, {None}, {None}), TRUE)
    /\ ParserIdle
    /\ ClientIdle
    /\ rx \in { Receiver(kind) : kind \in ReceiverKinds }
    /\ net = NoNet
    /\ log = NoLog
    /\ ToolsIdle

NextTransport ==
    \/ Open \/ Close \/ Connect \/ RecvLine
    \/ UdpReceive \/ TcpClientReceive \/ ServerReceive
    \/ IterLines \/ NextLine \/ LoopHead \/ ClientLoopHead

SpecTransport == InitTransport /\ [][NextTransport]_vars

----------------------------------------------------------------------------
(* to_dict and from_dict of models.py and frame.py.  A Python number is a    *)
(* record: its type, its value, and whether a conversion made it (made) or   *)
(* it is the object the caller built (an object a conversion hands back      *)
(* unchanged is that same object).                                           *)

NaN == <<"nan", 0, 0>>
PyFloat(value) == [type |-> "float", value |-> value, made |-> FALSE]
PyInt(n) == [type |-> "int", value |-> Num(n), made |-> FALSE]

\* float(o) of a number: a float is handed back as it is
to_float(o) ==
    IF o.type = "float" THEN o ELSE [type |-> "float", value |-> o.value, made |-> TRUE]

\* int(o) of a whole number: an int is handed back as it is
to_int(o) ==
    IF o.type = "int" THEN o ELSE [type |-> "int", value |-> o.value, made |-> TRUE]

\* a is b
Is(a, b) == a = b /\ ~a.made

\* a == b as the comparison of tuples and of dataclass fields finds it: the
\* same object, or numbers of equal value; nan equals no number
Eq(a, b) == Is(a, b) \/ (a.value # NaN /\ a.value = b.value)

Tuple(items) == [type |-> "tuple", items |-> items]
List(items) == [type |-> "list", items |-> items]

\* a member of the enum HandSide, whose .value is a str
Member(value) == [enum |-> "HandSide", value |-> value]

\* WristPose.to_dict
WristPose_to_dict(w) ==
    [x |-> w.x, y |-> w.y, z |-> w.z, qx |-> w.qx, qy |-> w.qy, qz |-> w.qz, qw |-> w.qw]

\* WristPose.from_dict
WristPose_from_dict(values) ==
    WristPose(<<to_float(values.x), to_float(values.y), to_float(values.z),
                to_float(values.qx), to_float(values.qy), to_float(values.qz),
                to_float(values.qw)>>)

\* HandLandmarks.to_dict: a list of [x, y, z] lists
HandLandmarks_to_dict(l) ==
    [points |-> List([i \in 1..Len(l.points.items) |-> List(l.points.items[i].items)])]

\* fault: the points are taken from the dictionary as they are
M_HandLandmarks_from_dict_as_given(values) == HandLandmarks(values.points)

\* HandLandmarks.from_dict: a tuple of (float, float, float) tuples
HandLandmarks_from_dict(values) ==
    HandLandmarks(Tuple([i \in 1..Len(values.points.items) |->
        Tuple(<<to_float(values.points.items[i].items[1]),
                to_float(values.points.items[i].items[2]),
                to_float(values.points.items[i].items[3])>>)]))

\* HandFrame.to_dict
HandFrame_to_dict(f) ==
    [side |-> f.side.value,
     frame_id |-> f.frame_id,
     wrist |-> WristPose_to_dict(f.wrist),
     landmarks |-> HandLandmarks_to_dict(f.landmarks),
     sequence_id |-> f.sequence_id,
     recv_ts_ns |-> f.recv_ts_ns,
     recv_time_unix_ns |-> f.recv_time_unix_ns,
     source_ts_ns |-> f.source_ts_ns,
     wrist_recv_ts_ns |-> f.wrist_recv_ts_ns,
     landmarks_recv_ts_ns |-> f.landmarks_recv_ts_ns]

\* None if o is None else int(o)
OptionalInt(o) == IF IsNone(o) THEN None ELSE Some(to_int(Val(o)))

\* HandFrame.from_dict
HandFrame_from_dict(values) ==
    [side |-> Member(values.side),
     frame_id |-> values.frame_id,
     wrist |-> WristPose_from_dict(values.wrist),
     landmarks |-> HandLandmarks_from_dict(values.landmarks),
     sequence_id |-> to_int(values.sequence_id),
     recv_ts_ns |-> to_int(values.recv_ts_ns),
     recv_time_unix_ns |-> OptionalInt(values.recv_time_unix_ns),
     source_ts_ns |-> OptionalInt(values.source_ts_ns),
     wrist_recv_ts_ns |-> to_int(values.wrist_recv_ts_ns),
     landmarks_recv_ts_ns |-> to_int(values.landmarks_recv_ts_ns)]

\* cls.to_dict(v) and cls.from_dict(values)
to_dict(class, v) ==
    IF class = "WristPose" THEN WristPose_to_dict(v)
    ELSE IF class = "HandLandmarks" THEN HandLandmarks_to_dict(v)
    ELSE HandFrame_to_dict(v)
from_dict(class, values) ==
    IF class = "WristPose" THEN WristPose_from_dict(values)
    ELSE IF class = "HandLandmarks" THEN HandLandmarks_from_dict(values)
    ELSE HandFrame_from_dict(values)

\* the == of the dataclasses: the == of the tuples of their fields
WristPoseEq(a, b) == \A k \in DOMAIN a : Eq(a[k], b[k])
PointEq(a, b) ==
    /\ a.type = b.type /\ Len(a.items) = Len(b.items)
    /\ \A j \in 1..Len(a.items) : Eq(a.items[j], b.items[j])
HandLandmarksEq(a, b) ==
    /\ a.points.type = b.points.type /\ Len(a.points.items) = Len(b.points.items)
    /\ \A i \in 1..Len(a.points.items) : PointEq(a.points.items[i], b.points.items[i])
OptionalEq(a, b) == IsNone(a) = IsNone(b) /\ (~IsNone(a) => Eq(Val(a), Val(b)))
HandFrameEq(a, b) ==
    /\ a.side = b.side /\ a.frame_id = b.frame_id
    /\ WristPoseEq(a.wrist, b.wrist) /\ HandLandmarksEq(a.landmarks, b.landmarks)
    /\ Eq(a.sequence_id, b.sequence_id) /\ Eq(a.recv_ts_ns, b.recv_ts_ns)
    /\ OptionalEq(a.recv_time_unix_ns, b.recv_time_unix_ns)
    /\ OptionalEq(a.source_ts_ns, b.source_ts_ns)
    /\ Eq(a.wrist_recv_ts_ns, b.wrist_recv_ts_ns)
    /\ Eq(a.landmarks_recv_ts_ns, b.landmarks_recv_ts_ns)
ValueEq(class, a, b) ==
    IF class = "WristPose" THEN WristPoseEq(a, b)
    ELSE IF class = "HandLandmarks" THEN HandLandmarksEq(a, b)
    ELSE HandFrameEq(a, b)

\* the values serialized: numbers that are floats, nan, and an int given where
\* a float is expected
Numbers == {PyFloat(Num(0)), PyFloat(Num(1)), PyFloat(NaN), PyInt(1)}
WristPoses ==
    { WristPose(<<a, PyFloat(Num(2)), PyFloat(Num(3)), PyFloat(Num(0)), PyFloat(Num(0)),
                  PyFloat(Num(0)), b>>) : a, b \in Numbers }
PointsOf(n, a) ==
    Tuple([i \in 1..n |-> Tuple(<<a, PyFloat(Num(i)), PyFloat(Num(0))>>)])
Landmarks ==
    { HandLandmarks(PointsOf(n, a)) : n \in {0, 1, LANDMARK_COUNT}, a \in Numbers }
HandFrames ==
    { [side |-> Member(side),
       frame_id |-> _frame_id_by_side[side],
       wrist |-> WristPose(<<a, a, a, a, a, a, a>>),
       landmarks |-> HandLandmarks(PointsOf(LANDMARK_COUNT, a)),
       sequence_id |-> PyInt(seq),
       recv_ts_ns |-> PyInt(1),
       recv_time_unix_ns |-> unix,
       source_ts_ns |-> source,
       wrist_recv_ts_ns |-> PyInt(1),
       landmarks_recv_ts_ns |-> PyInt(0)] :
       side \in HandSide, a \in {PyFloat(Num(1)), PyFloat(NaN), PyInt(1)}, seq \in {0, 1},
       unix \in {None, Some(PyInt(5))}, source \in {None, Some(PyInt(3))} }
ValuesOf(class) ==
    IF class = "WristPose" THEN WristPoses
    ELSE IF class = "HandLandmarks" THEN Landmarks
    ELSE HandFrames

\* d = v.to_dict()
ToDict ==
    /\ \E class \in {"WristPose", "HandLandmarks", "HandFrame"} : \E v \in ValuesOf(class) :
          trip' = [class |-> class, v |-> Some(v), d |-> Some(to_dict(class, v)), back |-> None]
    /\ UNCHANGED <<assemblerVars, parserVars, clientVars, transportVars, conv, viz>>

\* back = cls.from_dict(d)
FromDict ==
    /\ trip.d # None /\ trip.back = None
    /\ trip' = [trip EXCEPT !.back = Some(from_dict(trip.class, Val(trip.d)))]
    /\ UNCHANGED <<assemblerVars, parserVars, clientVars, transportVars, conv, viz>>

InitSerial == InitWith(Callers(LEFT, {None}, {None}), TRUE)

NextSerial == ToDict \/ FromDict

SpecSerial == InitSerial /\ [][NextSerial]_vars

----------------------------------------------------------------------------
(* convert.py.  Positions are float values; a negation keeps nan and turns *)
(* the sign of an infinity.  The quaternion arithmetic is done on whole     *)
(* numbers and is exact for the quaternions of the model: its square roots  *)
(* and quotients are whole there.                                           *)

Neg(f) == IF f = NaN THEN f ELSE <<f[1], -f[2], f[3]>>

RECURSIVE Pow10(_)
Pow10(e) == IF e = 0 THEN 1 ELSE 10 * Pow10(e - 1)

\* the whole number a float value is
Whole(f) == f[2] * Pow10(f[3])

\* (pose.x, pose.y, pose.z)
Position3(pose) == <<pose.x, pose.y, pose.z>>

Abs(n) == IF n < 0 THEN -n ELSE n
Sqrt(n) == CHOOSE r \in 0..n : r * r = n
Quot(a, b) == CHOOSE q \in -Abs(a)..Abs(a) : q * b = a

\* fault: the Z axis is flipped
M_unity_left_to_right_position_flip_z(x, y, z) == <<x, y, Neg(z)>>

unity_left_to_right_position(x, y, z) == <<x, Neg(y), z>>

unity_right_to_flu_position(x, y, z) == <<z, Neg(x), Neg(y)>>

_quaternion_to_matrix(qx, qy, qz, qw) ==
    << <<1 - 2 * (qy * qy + qz * qz), 2 * (qx * qy - qw * qz), 2 * (qx * qz + qw * qy)>>,
       <<2 * (qx * qy + qw * qz), 1 - 2 * (qx * qx + qz * qz), 2 * (qy * qz - qw * qx)>>,
       <<2 * (qx * qz - qw * qy), 2 * (qy * qz + qw * qx), 1 - 2 * (qx * qx + qy * qy)>> >>

_matmul(a, b) ==
    [i \in 1..3 |-> [j \in 1..3 |-> a[i][1] * b[1][j] + a[i][2] * b[2][j] + a[i][3] * b[3][j]]]

_normalize_quaternion(qx, qy, qz, qw) ==
    IF Sqrt(qx * qx + qy * qy + qz * qz + qw * qw) = 0 THEN <<0, 0, 0, 1>>
    ELSE <<Quot(qx, Sqrt(qx * qx + qy * qy + qz * qz + qw * qw)),
           Quot(qy, Sqrt(qx * qx + qy * qy + qz * qz + qw * qw)),
           Quot(qz, Sqrt(qx * qx + qy * qy + qz * qz + qw * qw)),
           Quot(qw, Sqrt(qx * qx + qy * qy + qz * qz + qw * qw))>>

\* _matrix_to_quaternion, one branch: s, and the numerators of qx, qy, qz, qw
\* (0.25 * s is s * s / (4 * s))
Branch(s, nx, ny, nz, nw) ==
    _normalize_quaternion(Quot(nx, s), Quot(ny, s), Quot(nz, s), Quot(nw, s))

_matrix_to_quaternion(m) ==
    IF m[1][1] + m[2][2] + m[3][3] > 0
    THEN Branch(Sqrt(m[1][1] + m[2][2] + m[3][3] + 1) * 2,
                m[3][2] - m[2][3], m[1][3] - m[3][1], m[2][1] - m[1][2],
                m[1][1] + m[2][2] + m[3][3] + 1)
    ELSE IF m[1][1] > m[2][2] /\ m[1][1] > m[3][3]
    THEN Branch(Sqrt(1 + m[1][1] - m[2][2] - m[3][3]) * 2,
                1 + m[1][1] - m[2][2] - m[3][3], m[1][2] + m[2][1], m[1][3] + m[3][1],
                m[3][2] - m[2][3])
    ELSE IF m[2][2] > m[3][3]
    THEN Branch(Sqrt(1 + m[2][2] - m[1][1] - m[3][3]) * 2,
                m[1][2] + m[2][1], 1 + m[2][2] - m[1][1] - m[3][3], m[2][3] + m[3][2],
                m[1][3] - m[3][1])
    ELSE Branch(Sqrt(1 + m[3][3] - m[1][1] - m[2][2]) * 2,
                m[1][3] + m[3][1], m[2][3] + m[3][2], 1 + m[3][3] - m[1][1] - m[2][2],
                m[2][1] - m[1][2])

\* the reflection S = diag(1, -1, 1)
Reflection == << <<1, 0, 0>>, <<0, -1, 0>>, <<0, 0, 1>> >>

unity_left_to_right_quaternion(qx, qy, qz, qw) ==
    _matrix_to_quaternion(
        _matmul(_matmul(Reflection, _quaternion_to_matrix(qx, qy, qz, qw)), Reflection))

\* WristPose of a converted position and a converted quaternion
Posed(position, quaternion) ==
    WristPose(position \o <<Num(quaternion[1]), Num(quaternion[2]), Num(quaternion[3]),
                            Num(quaternion[4])>>)

convert_wrist_pose_unity_left_to_right(pose) ==
    Posed(unity_left_to_right_position(pose.x, pose.y, pose.z),
          unity_left_to_right_quaternion(Whole(pose.qx), Whole(pose.qy), Whole(pose.qz),
                                         Whole(pose.qw)))

convert_landmarks_unity_left_to_right(landmarks) ==
    HandLandmarks([i \in 1..Len(landmarks.points) |->
        unity_left_to_right_position(landmarks.points[i][1], landmarks.points[i][2],
                                     landmarks.points[i][3])])

convert_hand_frame_unity_left_to_right(frame) ==
    [side |-> frame.side,
     frame_id |-> frame.frame_id,
     wrist |-> convert_wrist_pose_unity_left_to_right(frame.wrist),
     landmarks |-> convert_landmarks_unity_left_to_right(frame.landmarks),
     sequence_id |-> frame.sequence_id,
     recv_ts_ns |-> frame.recv_ts_ns,
     recv_time_unix_ns |-> frame.recv_time_unix_ns,
     source_ts_ns |-> frame.source_ts_ns,
     wrist_recv_ts_ns |-> frame.wrist_recv_ts_ns,
     landmarks_recv_ts_ns |-> frame.landmarks_recv_ts_ns]

\* the frames converted: coordinates that are numbers, nan and an infinity,
\* quaternions that are not all of norm 1, and landmark sets of 0, 1 and 21 points
Coordinates == {Num(2), Num(-5), Num(0), NaN, <<"inf", 1, 0>>}
Quaternions ==
    { <<0, 0, 0, 1>>, <<1, 0, 0, 0>>, <<0, 1, 0, 0>>, <<0, 0, 1, 0>>,
      <<0, 0, 0, 0>>, <<0, 0, 0, 2>>, <<0, 0, 0, -1>>, <<2, 0, 0, 0>> }
ConvertedFrames ==
    { [side |-> side,
       frame_id |-> _frame_id_by_side[side],
       wrist |-> Posed(<<Num(1), y, Num(3)>>, q),
       landmarks |-> HandLandmarks([k \in 1..n |-> <<Num(k), y, Num(k + 1)>>]),
       sequence_id |-> 5,
       recv_ts_ns |-> 7,
       recv_time_unix_ns |-> unix,
       source_ts_ns |-> source,
       wrist_recv_ts_ns |-> 7,
       landmarks_recv_ts_ns |-> 6] :
       side \in HandSide, y \in Coordinates, q \in Quaternions,
       n \in {0, 1, LANDMARK_COUNT}, unix \in UnixArgs, source \in SourceArgs }

\* converted = convert_hand_frame_unity_left_to_right(frame); the function keeps
\* no state, so a behaviour holds one call
Convert ==
    /\ conv = None
    /\ \E frame \in ConvertedFrames :
          conv' = Some([frame |-> frame,
                        converted |-> convert_hand_frame_unity_left_to_right(frame)])
    /\ UNCHANGED <<assemblerVars, parserVars, clientVars, transportVars, trip, viz>>

InitConvert == InitWith(Callers(LEFT, {None}, {None}), TRUE)

NextConvert == Convert

SpecConvert == InitConvert /\ [][NextConvert]_vars

----------------------------------------------------------------------------
(* visualization.py: RerunVisualizer.  The rerun module is the list of what *)
(* the last call logged: for every rr.log its path, its points, and (a      *)
(* ghost) the points _log_points was given.  Coordinates are whole here.    *)

VisualizationFrame_SDK == "sdk"
VisualizationFrame_FLU == "flu"
VisualizationFrame == {VisualizationFrame_SDK, VisualizationFrame_FLU}

RerunVisualizerConfig(landmarks_are_wrist_relative, convert_to_right_handed, visualization_frame) ==
    [landmarks_are_wrist_relative |-> landmarks_are_wrist_relative,
     convert_to_right_handed |-> convert_to_right_handed,
     visualization_frame |-> visualization_frame]

\* RerunVisualizer.__init__
RerunVisualizer(cfg) ==
    [_config |-> cfg, _latest_wrist_by_side |-> [s \in HandSide |-> None], logs |-> <<>>]

_map_point_frame(v, x, y, z) ==
    IF v._config.visualization_frame = VisualizationFrame_SDK
    THEN <<x, y, z>>
    ELSE <<x, z, Neg(y)>>

\* what _log_points hands to rr.log
_log_points(v, path, points) ==
    [path |-> path,
     points |-> [i \in 1..Len(points) |->
                    _map_point_frame(v, points[i][1], points[i][2], points[i][3])],
     given |-> points]

Norm(qx, qy, qz, qw) == Sqrt(qx * qx + qy * qy + qz * qz + qw * qw)

\* _rotate_vector_by_quaternion, the last three lines: out_x, out_y, out_z
Out(ix, iy, iz, iw, qx_n, qy_n, qz_n, qw_n) ==
    <<ix * qw_n + iw * (-qx_n) + iy * (-qz_n) - iz * (-qy_n),
      iy * qw_n + iw * (-qy_n) + iz * (-qx_n) - ix * (-qz_n),
      iz * qw_n + iw * (-qz_n) + ix * (-qy_n) - iy * (-qx_n)>>

\* _rotate_vector_by_quaternion from the normalized quaternion on
Rotated(x, y, z, qx_n, qy_n, qz_n, qw_n) ==
    Out(qw_n * x + qy_n * z - qz_n * y,
        qw_n * y + qz_n * x - qx_n * z,
        qw_n * z + qx_n * y - qy_n * x,
        -qx_n * x - qy_n * y - qz_n * z,
        qx_n, qy_n, qz_n, qw_n)

_rotate_vector_by_quaternion(x, y, z, qx, qy, qz, qw) ==
    IF Norm(qx, qy, qz, qw) = 0 THEN <<x, y, z>>
    ELSE Rotated(x, y, z, Quot(qx, Norm(qx, qy, qz, qw)), Quot(qy, Norm(qx, qy, qz, qw)),
                 Quot(qz, Norm(qx, qy, qz, qw)), Quot(qw, Norm(qx, qy, qz, qw)))

\* (rx + wrist.x, ry + wrist.y, rz + wrist.z)
Moved(r, wrist) ==
    <<Num(r[1] + Whole(wrist.x)), Num(r[2] + Whole(wrist.y)), Num(r[3] + Whole(wrist.z))>>

_transform_landmarks_by_wrist(points, wrist) ==
    [i \in 1..Len(points) |->
        Moved(_rotate_vector_by_quaternion(Whole(points[i][1]), Whole(points[i][2]),
                                           Whole(points[i][3]), Whole(wrist.qx),
                                           Whole(wrist.qy), Whole(wrist.qz), Whole(wrist.qw)),
              wrist)]

\* log_packet of a WristPacket, from the converted pose on
WristLogged(v, side, pose) ==
    [v EXCEPT !._latest_wrist_by_side[side] = Some(pose),
              !.logs = <<_log_points(v, <<"hands", side, "wrist">>,
                                     <<Position3(pose)>>)>>]

\* log_packet of a LandmarksPacket, from the converted points on
LandmarksLogged(v, side, points) ==
    IF v._config.landmarks_are_wrist_relative
    THEN IF IsNone(v._latest_wrist_by_side[side])
         THEN [v EXCEPT !.logs = <<>>]
         ELSE [v EXCEPT !.logs =
                  <<_log_points(v, <<"hands", side, "landmarks">>,
                        _transform_landmarks_by_wrist(points, Val(v._latest_wrist_by_side[side])))>>]
    ELSE [v EXCEPT !.logs = <<_log_points(v, <<"hands", side, "landmarks">>, points)>>]

log_packet(v, packet) ==
    IF packet.type = "WristPacket"
    THEN WristLogged(v, packet.side,
                     IF v._config.convert_to_right_handed
                     THEN convert_wrist_pose_unity_left_to_right(packet.data)
                     ELSE packet.data)
    ELSE LandmarksLogged(v, packet.side,
                         IF v._config.convert_to_right_handed
                         THEN convert_landmarks_unity_left_to_right(packet.data).points
                         ELSE packet.data.points)

\* log_frame, from visual_frame on
FrameLogged(v, visual_frame) ==
    [v EXCEPT !.logs =
        <<_log_points(v, <<"frames", visual_frame.frame_id, "wrist">>,
                      <<Position3(visual_frame.wrist)>>),
          _log_points(v, <<"frames", visual_frame.frame_id, "landmarks">>,
                      IF v._config.landmarks_are_wrist_relative
                      THEN _transform_landmarks_by_wrist(visual_frame.landmarks.points,
                                                         visual_frame.wrist)
                      ELSE visual_frame.landmarks.points)>>]

log_frame(v, frame) ==
    FrameLogged(v, IF v._config.convert_to_right_handed
                   THEN convert_hand_frame_unity_left_to_right(frame)
                   ELSE frame)

\* what is visualized: the wrist of tests/test_visualization.py under four
\* quaternions, and landmark sets of one and two points
VizQuaternions == { <<0, 0, 0, 1>>, <<1, 0, 0, 0>>, <<0, 0, 0, 0>>, <<0, 0, 0, 2>> }
VizPoses == {Posed(<<Num(10), Num(20), Num(30)>>, q) : q \in VizQuaternions}
VizLandmarks ==
    {HandLandmarks(<< <<Num(1), Num(2), Num(3)>> >>),
     HandLandmarks(<< <<Num(0), Num(-4), Num(5)>>, <<Num(1), Num(2), Num(3)>> >>)}
VizPackets ==
    {WristPacket(side, pose) : side \in HandSide, pose \in VizPoses}
        \cup {LandmarksPacket(side, l) : side \in HandSide, l \in VizLandmarks}
VizFrames ==
    { [side |-> side,
       frame_id |-> _frame_id_by_side[side],
       wrist |-> pose,
       landmarks |-> l,
       sequence_id |-> 0,
       recv_ts_ns |-> 7,
       recv_time_unix_ns |-> None,
       source_ts_ns |-> None,
       wrist_recv_ts_ns |-> 7,
       landmarks_recv_ts_ns |-> 6] :
       side \in HandSide, pose \in VizPoses, l \in VizLandmarks }
VizConfigs ==
    {RerunVisualizerConfig(rel, right, frame) :
        rel \in BOOLEAN, right \in BOOLEAN, frame \in VisualizationFrame}

\* visualizer.log_packet(packet)
LogPacket ==
    /\ viz # None
    /\ \E packet \in VizPackets : viz' = Some(log_packet(Val(viz), packet))
    /\ UNCHANGED <<assemblerVars, parserVars, clientVars, transportVars, trip, conv>>

\* visualizer.log_frame(frame)
LogFrame ==
    /\ viz # None
    /\ \E frame \in VizFrames : viz' = Some(log_frame(Val(viz), frame))
    /\ UNCHANGED <<assemblerVars, parserVars, clientVars, transportVars, trip, conv>>

InitViz ==
    /\ InitAssembler(Callers(LEFT, {None}, {None}), TRUE)
    /\ ParserIdle
    /\ TransportIdle
    /\ ClientIdle
    /\ trip = NoTrip
    /\ conv = None
    /\ \E cfg \in VizConfigs : viz = Some(RerunVisualizer(cfg))

NextViz == LogPacket \/ LogFrame

SpecViz == InitViz /\ [][NextViz]_vars

----------------------------------------------------------------------------
(* Properties of the assembler *)

IsPush(c) == c.op \in {"push_packet", "push_line"} /\ ~IsNone(c.side)
IsFrame(r) == ~IsNone(r)
OtherKind(k) == IF k = WRIST THEN LANDMARKS ELSE WRIST
OtherSide(s) == IF s = LEFT THEN RIGHT ELSE LEFT
Marker(ss, kind) ==
    IF kind = WRIST THEN ss.last_emitted_wrist_recv_ts_ns
    ELSE ss.last_emitted_landmarks_recv_ts_ns
\* the push recorded in c is older than what ss stores for its component
StaleFor(c, ss) ==
    /\ ~IsNone(StoredTs(ss, c.kind))
    /\ Val(c.ts) < Val(StoredTs(ss, c.kind))
EmptySide ==
    [wrist |-> <<>>, wrist_recv_ts_ns |-> <<>>, landmarks |-> <<>>,
     landmarks_recv_ts_ns |-> <<>>, last_emitted_wrist_recv_ts_ns |-> <<>>,
     last_emitted_landmarks_recv_ts_ns |-> <<>>, next_sequence_id |-> 0]

\* C1: for each side, the frames emitted since construction or since the last
\* reset covering the side carry sequence_id 0, 1, 2, ... in emission order.
C1_SequenceIds ==
    \A s \in HandSide : \A i \in 1..Len(frames[s]) : frames[s][i] = i - 1

\* three frames of one side in a row, the last one just returned
C1_Witness ==
    \E s \in HandSide :
        /\ frames[s] = <<0, 1, 2>>
        /\ IsFrame(ret) /\ Val(ret).side = s /\ Val(ret).sequence_id = 2

\* C2: a push whose resolved recv_ts_ns is strictly less than the timestamp
\* stored for the same component and side returns None and leaves the state of
\* both sides unchanged.
C2_StalePushIgnored ==
    [][(IsPush(call') /\ StaleFor(call', state[Val(call'.side)]))
          => (ret' = None /\ raised' = "" /\ state' = state)]_vars

\* a push_packet with an older timestamp and another payload than the stored
\* ones, on a side that has emitted
C2_Witness ==
    /\ call.op = "push_packet"
    /\ ~IsNone(call.side)
    /\ StaleFor(call, state[Val(call.side)])
    /\ StoredData(state[Val(call.side)], call.kind) # call.data
    /\ frames[Val(call.side)] # <<>>
    /\ ret = None

\* C3: a frame is returned for a side only when a wrist and a landmarks packet
\* of that side have both been accepted since construction or the last reset
\* of the side; a push returns None whenever a component of its side is absent.
C3_BothComponents ==
    /\ [](IsFrame(ret) => /\ accepted[Val(ret).side] = PacketType
                          /\ ~IsNone(state[Val(ret).side].wrist)
                          /\ ~IsNone(state[Val(ret).side].landmarks))
    /\ []((IsPush(call) /\ \E k \in PacketType : IsNone(StoredData(state[Val(call.side)], k)))
             => ret = None)
    /\ [][(IsPush(call') /\ IsNone(StoredData(state[Val(call'.side)], OtherKind(call'.kind))))
             => ret' = None]_vars

\* a push right after a reset that cleared stored components of its side: the
\* pushed component is accepted, the other one is absent, nothing is returned
C3_Witness ==
    /\ IsPush(call)
    /\ call.lowest # None
    /\ accepted[Val(call.side)] = {call.kind}
    /\ IsNone(StoredData(state[Val(call.side)], OtherKind(call.kind)))
    /\ ret = None

\* C4: every emitted frame has recv_ts_ns equal to the larger of its two
\* component timestamps, which are the timestamps stored for the side.
C4_RecvTsIsMax ==
    IsFrame(ret) =>
        /\ Val(ret).wrist_recv_ts_ns = Val(state[Val(ret).side].wrist_recv_ts_ns)
        /\ Val(ret).landmarks_recv_ts_ns = Val(state[Val(ret).side].landmarks_recv_ts_ns)
        /\ Val(ret).recv_ts_ns >= Val(ret).wrist_recv_ts_ns
        /\ Val(ret).recv_ts_ns >= Val(ret).landmarks_recv_ts_ns
        /\ Val(ret).recv_ts_ns \in {Val(ret).wrist_recv_ts_ns, Val(ret).landmarks_recv_ts_ns}

\* a frame whose landmarks are newer than its wrist
C4_Witness ==
    /\ IsFrame(ret)
    /\ Val(ret).landmarks_recv_ts_ns > Val(ret).wrist_recv_ts_ns
    /\ Val(ret).recv_ts_ns = Val(ret).landmarks_recv_ts_ns

\* the push recorded in c, made in side state ss, is accepted and leaves both
\* components stored with a timestamp that differs from its marker
C5_MustEmit(c, ss) ==
    /\ ~StaleFor(c, ss)
    /\ ~IsNone(StoredTs(ss, OtherKind(c.kind)))
    /\ \/ c.ts # Marker(ss, c.kind)
       \/ StoredTs(ss, OtherKind(c.kind)) # Marker(ss, OtherKind(c.kind))

\* C5: an accepted push after which both components are stored and a stored
\* timestamp differs from its last-emitted marker returns a frame numbered with
\* the side's counter, increments the counter and sets both markers to the
\* stored timestamps; the push that first completes a side always emits.
C5_EmitsWhenAdvanced ==
    [][IsPush(call') =>
        LET s == Val(call'.side) IN
        /\ C5_MustEmit(call', state[s]) =>
              /\ IsFrame(ret')
              /\ Val(ret').side = s
              /\ Val(ret').sequence_id = state[s].next_sequence_id
              /\ state'[s].next_sequence_id = state[s].next_sequence_id + 1
              /\ state'[s].last_emitted_wrist_recv_ts_ns = state'[s].wrist_recv_ts_ns
              /\ state'[s].last_emitted_landmarks_recv_ts_ns = state'[s].landmarks_recv_ts_ns
              /\ StoredTs(state'[s], call'.kind) = call'.ts
              /\ frames'[s] = Append(frames[s], state[s].next_sequence_id)
        /\ (/\ IsNone(StoredTs(state[s], call'.kind))
            /\ ~IsNone(StoredTs(state[s], OtherKind(call'.kind)))) => IsFrame(ret')
      ]_vars

\* the second frame of a side, emitted when one component alone advanced
C5_Witness ==
    /\ IsPush(call)
    /\ IsFrame(ret)
    /\ Val(ret).sequence_id = 1
    /\ Val(ret).wrist_recv_ts_ns # Val(ret).landmarks_recv_ts_ns

\* the push recorded in c, made in side state ss that has emitted, repeats the
\* stored timestamp of its component while the other component has not advanced
C6_Repeats(c, ss) ==
    /\ ~IsNone(Marker(ss, c.kind))
    /\ c.ts = StoredTs(ss, c.kind)
    /\ StoredTs(ss, OtherKind(c.kind)) = Marker(ss, OtherKind(c.kind))

\* C6: after a frame was emitted for a side, a push of a component with a
\* timestamp equal to the stored one, the other component not having advanced
\* since the last emission, returns None and leaves next_sequence_id and the
\* last-emitted markers as they were.
C6_EqualRepushSilent ==
    [][IsPush(call') =>
        LET s == Val(call'.side) IN
        (frames[s] # <<>> /\ C6_Repeats(call', state[s])) =>
            /\ ret' = None
            /\ state'[s].next_sequence_id = state[s].next_sequence_id
            /\ Marker(state'[s], WRIST) = Marker(state[s], WRIST)
            /\ Marker(state'[s], LANDMARKS) = Marker(state[s], LANDMARKS)
            /\ frames'[s] = frames[s]
      ]_vars

\* a push_packet that repeats the stored timestamp on a side that has emitted,
\* and returns nothing
C6_Witness ==
    /\ call.op = "push_packet"
    /\ ~IsNone(call.side)
    /\ frames[Val(call.side)] # <<>>
    /\ StoredTs(state[Val(call.side)], call.kind) = call.ts
    /\ Marker(state[Val(call.side)], call.kind) = call.ts
    /\ state[Val(call.side)].next_sequence_id = Len(frames[Val(call.side)])
    /\ ret = None

\* C7: a push whose recv_ts_ns equals the stored timestamp of its component is
\* accepted: the stored payload becomes the pushed one and the timestamp is
\* rewritten.  Every frame carries the payloads that are stored when it is
\* emitted, and a stored payload changes only by a push of its component or a
\* reset of its side, so the next frame of the side carries the payload of the
\* equal-timestamp push.
C7_EqualPushReplaces ==
    /\ [][IsPush(call') =>
            LET s == Val(call'.side) IN
            (call'.ts = StoredTs(state[s], call'.kind)) =>
                /\ StoredData(state'[s], call'.kind) = call'.data
                /\ StoredTs(state'[s], call'.kind) = call'.ts
         ]_vars
    /\ [](IsFrame(ret) => \A k \in PacketType :
            Some(FrameData(Val(ret), k)) = StoredData(state[Val(ret).side], k))
    /\ [][\A s \in HandSide, k \in PacketType :
            (StoredData(state'[s], k) # StoredData(state[s], k)) =>
                \/ call'.op = "reset" /\ Covers(call'.side, s)
                \/ IsPush(call') /\ call'.side = Some(s) /\ call'.kind = k
                                 /\ StoredData(state'[s], k) = call'.data
         ]_vars
    /\ [][(call.replaced /\ IsPush(call') /\ call'.side = call.side
             /\ call'.kind = OtherKind(call.kind) /\ IsFrame(ret'))
            => Some(FrameData(Val(ret'), call.kind)) = call.data]_vars

\* an equal-timestamp push with another payload than the stored one, on a side
\* that has emitted: the pushed payload is the stored one
C7_Witness ==
    /\ IsPush(call)
    /\ call.replaced
    /\ frames[Val(call.side)] # <<>>
    /\ StoredData(state[Val(call.side)], call.kind) = call.data
    /\ StoredTs(state[Val(call.side)], call.kind) = call.ts

\* C8: a push for one side never changes the other side's state, and each
\* side's state and returned frames are those of an assembler that is given
\* that side's calls alone.
C8_SidesIndependent ==
    /\ [](\A s \in HandSide : state[s] = solo[s][s])
    /\ [](IsPush(call) => ret = solo_ret)
    /\ [][IsPush(call') => state'[OtherSide(Val(call'.side))] = state[OtherSide(Val(call'.side))]]_vars

\* a push that emits the second frame of its side while the other side has
\* emitted too
C8_Witness ==
    /\ IsPush(call)
    /\ IsFrame(ret)
    /\ Len(frames[Val(call.side)]) = 2
    /\ frames[OtherSide(Val(call.side))] # <<>>
    /\ Val(ret).sequence_id = 1

\* C9: reset(side) returns the side to the initial empty state and leaves the
\* other side unchanged, reset() does so for both sides; the push that follows
\* a reset of its side is accepted whatever its timestamp, and the first frame
\* of the side after the reset has sequence_id 0.
C9_Reset ==
    /\ [][call'.op = "reset" =>
            \A s \in HandSide :
                IF Covers(call'.side, s) THEN state'[s] = EmptySide ELSE state'[s] = state[s]
         ]_vars
    /\ [][(call.op = "reset" /\ IsPush(call') /\ Covers(call.side, Val(call'.side))) =>
            /\ StoredTs(state'[Val(call'.side)], call'.kind) = call'.ts
            /\ StoredData(state'[Val(call'.side)], call'.kind) = call'.data
         ]_vars
    /\ [][\A s \in HandSide :
            (frames[s] = <<>> /\ IsFrame(ret') /\ Val(ret').side = s) => Val(ret').sequence_id = 0
         ]_vars

\* a push accepted right after a reset of its side, with a timestamp lower than
\* every timestamp the reset cleared, while the other side keeps its frames
C9_Witness ==
    /\ IsPush(call)
    /\ ~IsNone(call.lowest)
    /\ Val(call.ts) < Val(call.lowest)
    /\ StoredTs(state[Val(call.side)], call.kind) = call.ts
    /\ frames[Val(call.side)] = <<>>
    /\ frames[OtherSide(Val(call.side))] # <<>>

\* C10: push_line on a line the parser rejects raises ParseError and leaves the
\* state of both sides unchanged; on a line the parser accepts it returns what
\* push_packet returns for the parsed packet with the same arguments.
C10_PushLine ==
    /\ [][(call'.op = "push_line" /\ call'.parsed = "error") =>
            /\ raised' = "ParseError"
            /\ ret' = None
            /\ state' = state
         ]_vars
    /\ []((call.op = "push_line" /\ call.parsed = "ok") =>
            /\ raised = ""
            /\ ~IsNone(twin)
            /\ ret = Val(twin).ret
            /\ state = Val(twin).state)

\* a rejected line raised ParseError on an assembler that holds frames
C10_Witness ==
    /\ call.op = "push_line"
    /\ call.parsed = "error"
    /\ raised = "ParseError"
    /\ \E s \in HandSide : frames[s] # <<>>

\* the recv_time_unix_ns a push resolves: the caller's value, else the wall
\* clock's when wall time is included, else None
C11_Resolved(c, wall) ==
    IF ~IsNone(c.unix) THEN c.unix
    ELSE IF wall THEN c.wall_now
    ELSE None

\* C11: the recv_time_unix_ns of an emitted frame is the one resolved for the
\* push that returned the frame (the caller's value when given, whatever
\* include_wall_time is; otherwise the wall clock's value when include_wall_time
\* is set; otherwise None), and its source_ts_ns is the value passed to that push.
C11_FrameStamps ==
    (IsPush(call) /\ IsFrame(ret)) =>
        /\ Val(ret).recv_time_unix_ns = C11_Resolved(call, include_wall_time)
        /\ Val(ret).source_ts_ns = call.source

\* a frame returned by a push that passes recv_time_unix_ns and source_ts_ns to
\* an assembler that includes wall time: the caller's values are on the frame
C11_Witness ==
    /\ IsPush(call)
    /\ IsFrame(ret)
    /\ include_wall_time
    /\ ~IsNone(call.unix) /\ ~IsNone(call.source)
    /\ Val(ret).recv_time_unix_ns = call.unix
    /\ Val(ret).recv_time_unix_ns # call.wall_now
    /\ Val(ret).source_ts_ns = call.source
    /\ Val(ret).sequence_id = 1

\* the push recorded in c is a wrist push whose timestamp is lower than the wrist
\* timestamp of the most recent frame of side state ss
C12_GoesBack(c, ss) ==
    /\ IsPush(c)
    /\ c.kind = WRIST
    /\ ~IsNone(Marker(ss, WRIST))
    /\ Val(c.ts) < Val(Marker(ss, WRIST))

\* C12 as stated: a wrist push whose timestamp goes back below the wrist
\* timestamp of the most recent frame of its side yields a new frame.
C12_PingPongEmits ==
    [][C12_GoesBack(call', state[Val(call'.side)]) => IsFrame(ret')]_vars

\* C12, amended: a wrist push whose timestamp goes back below the wrist
\* timestamp of the most recent frame emitted for its side since the last reset
\* of the side is discarded by the staleness test before the advancement test:
\* it returns None and changes nothing.
C12_PingPongDiscarded ==
    [][C12_GoesBack(call', state[Val(call'.side)])
          => (ret' = None /\ state' = state /\ frames' = frames)]_vars

\* after frames with wrist timestamps 0 and then 1, a wrist push with timestamp 0
\* again: nothing is returned
C12_Witness ==
    /\ IsPush(call)
    /\ call.kind = WRIST
    /\ call.ts = Some(0)
    /\ Len(frames[Val(call.side)]) = 2
    /\ Marker(state[Val(call.side)], WRIST) = Some(1)
    /\ StoredTs(state[Val(call.side)], WRIST) = Some(1)
    /\ ret = None

\* The checks on a line, each stated on the text of the line
LineLabel(line) == split_ws(partition(strip(line), ":")[1])
LineTokens(line) ==
    SelectSeq(split_on(partition(strip(line), ":")[3], ","), LAMBDA chunk : strip(chunk) # <<>>)
LineIsEmpty(line) == strip(line) = <<>>
LineHasSeparator(line) == \E i \in 1..Len(line) : line[i] = ":"
LabelHasTwoTokens(line) == Len(LineLabel(line)) = 2
SideIsSupported(line) == LineLabel(line)[1] \in {S_Left, S_Right}
KindIsSupported(line) == lower(LineLabel(line)[2]) \in {S_wrist, S_landmarks}
TokensAreFloats(line) == \A i \in 1..Len(LineTokens(line)) : ~IsNone(float(LineTokens(line)[i]))
CountIsRight(line) ==
    Len(LineTokens(line)) = IF lower(LineLabel(line)[2]) = S_wrist THEN 7 ELSE 63

\* the failure of the first check that fails, in the order: empty line, missing
\* separator, invalid label, unsupported side, unsupported packet type,
\* non-float value, wrong value count ("" when every check passes)
C13_FirstFailure(line) ==
    IF LineIsEmpty(line) THEN "Empty line."
    ELSE IF ~LineHasSeparator(line) THEN "Missing ':' separator."
    ELSE IF ~LabelHasTwoTokens(line) THEN "Invalid label"
    ELSE IF ~SideIsSupported(line) THEN "Unsupported hand side"
    ELSE IF ~KindIsSupported(line) THEN "Unsupported packet type"
    ELSE IF ~TokensAreFloats(line) THEN "Payload contains non-float values."
    ELSE IF ~CountIsRight(line) THEN
        (IF lower(LineLabel(line)[2]) = S_wrist
         THEN "Wrist packet must contain 7 values"
         ELSE "Landmarks packet must contain 63 values")
    ELSE ""

\* C13: parse_line reports the failure of the first check that fails, in the
\* order empty line, missing separator, invalid label, unsupported side,
\* unsupported packet type, non-float payload value, wrong value count.
C13_FirstFailureReported ==
    ~IsNone(outcome) => Val(outcome).error = C13_FirstFailure(text)

\* the stripped line is non-empty and contains ':', its label is two tokens, the
\* first exactly Left or Right, the second wrist or landmarks in any case, every
\* non-empty payload token is a float, and there are 7 (wrist) or 63 (landmarks)
C14_Accepts(line) ==
    /\ ~LineIsEmpty(line)
    /\ LineHasSeparator(line)
    /\ LabelHasTwoTokens(line)
    /\ SideIsSupported(line)
    /\ KindIsSupported(line)
    /\ TokensAreFloats(line)
    /\ CountIsRight(line)

ParseErrors ==
    {"Empty line.", "Missing ':' separator.", "Invalid label", "Unsupported hand side",
     "Unsupported packet type", "Payload contains non-float values.",
     "Wrist packet must contain 7 values", "Landmarks packet must contain 63 values"}

\* C14: parse_line either returns a packet or raises ParseError, and it returns a
\* packet exactly when the line passes every check of C14_Accepts.
C14_AcceptedExactly ==
    ~IsNone(outcome) =>
        /\ (Val(outcome).error = "") = C14_Accepts(text)
        /\ (Val(outcome).error = "") = ~IsNone(Val(outcome).packet)
        /\ Val(outcome).error # "" => Val(outcome).error \in ParseErrors

\* an accepted line with padding, a kind in capitals and tokens in several
\* float forms
C14_Witness ==
    /\ ~IsNone(outcome)
    /\ Val(outcome).error = ""
    /\ given.pad > 0
    /\ given.tokens = FloatForms
    /\ given.label = <<S_Right, <<"W", "r", "i", "s", "t">> >>

\* C15: whitespace around the line, the label and the payload tokens, and empty
\* payload tokens (a comma before the first or after the last token), do not
\* change what parse_line gives: the decorated line and the plain one have the
\* same result, and empty tokens are not counted.
C15_DecorationIgnored ==
    ~IsNone(outcome) => outcome = plain_outcome

\* an accepted landmarks line with padding and an empty token at both ends
C15_Witness ==
    /\ ~IsNone(outcome)
    /\ Val(outcome).error = ""
    /\ given.pad > 0 /\ given.lead /\ given.trail
    /\ Len(given.tokens) = LANDMARK_VALUE_COUNT
    /\ text # PlainLine(given)
    /\ Len(text) > Len(PlainLine(given)) + 2 * LANDMARK_VALUE_COUNT

\* the value of token i of the line written
C16_Value(i) == Val(float(given.tokens[i]))

\* C16: the packet of an accepted line has the side and kind of the label and
\* the variant of the kind; a wrist packet holds the seven tokens as
\* (x, y, z, qx, qy, qz, qw) in order, a landmarks packet holds 21 points,
\* point i being tokens 3i, 3i+1, 3i+2 (counted from 0).
C16_Positional ==
    (~IsNone(outcome) /\ Val(outcome).error = "") =>
        LET packet == Val(Val(outcome).packet) IN
        /\ packet.side = (IF given.label[1] = S_Left THEN LEFT ELSE RIGHT)
        /\ given.label[1] \in {S_Left, S_Right}
        /\ packet.kind = (IF lower(given.label[2]) = S_wrist THEN WRIST ELSE LANDMARKS)
        /\ lower(given.label[2]) \in {S_wrist, S_landmarks}
        /\ packet.type = (IF packet.kind = WRIST THEN "WristPacket" ELSE "LandmarksPacket")
        /\ packet.kind = WRIST =>
              /\ Len(given.tokens) = 7
              /\ packet.data = [x |-> C16_Value(1), y |-> C16_Value(2), z |-> C16_Value(3),
                                qx |-> C16_Value(4), qy |-> C16_Value(5),
                                qz |-> C16_Value(6), qw |-> C16_Value(7)]
        /\ packet.kind = LANDMARKS =>
              /\ Len(given.tokens) = 63
              /\ Len(packet.data.points) = 21
              /\ \A i \in 0..20 :
                    packet.data.points[i + 1] =
                        <<C16_Value(3 * i + 1), C16_Value(3 * i + 2), C16_Value(3 * i + 3)>>

\* an accepted landmarks line: 21 points, the last one made of the last three tokens
C16_Witness ==
    /\ ~IsNone(outcome)
    /\ Val(outcome).error = ""
    /\ Val(Val(outcome).packet).kind = LANDMARKS
    /\ Len(Val(Val(outcome).packet).data.points) = 21
    /\ Val(Val(outcome).packet).data.points[21] = <<Num(1), Num(2), Num(3)>>
    /\ Val(Val(outcome).packet).data.points[1] = <<Num(1), Num(2), Num(3)>>
    /\ Val(Val(outcome).packet).data.points[2] = <<Num(4), Num(5), Num(6)>>

----------------------------------------------------------------------------
(* Properties of the client *)

\* the numbers of the pulled lines that parse_line rejects
BadPulled == {i \in 1..Len(pulled) : pulled[i].bad}

\* the numbers of the pulled lines whose packet the hand filter excludes
ExcludedPulled == {i \in 1..Len(pulled) : ~pulled[i].bad /\ Excluded(config, pulled[i].side)}

\* the numbers of the pulled lines that parse and pass the hand filter
Surviving == (1..Len(pulled)) \ (BadPulled \cup ExcludedPulled)

\* the step pulls a line that parse_line rejects
PullsBad == Len(pulled') = Len(pulled) + 1 /\ pulled'[Len(pulled')].bad

\* C17: under the strict policy the iteration ends with ParseError at the first
\* malformed line: the step that pulls it yields nothing, leaves the assembler
\* alone and adds one to parse_errors; the events yielded by then are those of
\* the earlier lines; afterwards no line is pulled and no event yielded.
C17_StrictTerminates ==
    /\ [][config.error_policy = STRICT /\ PullsBad
            => /\ pc' = "raised"
               /\ events' = events
               /\ state' = state
               /\ stats'.parse_errors = stats.parse_errors + 1]_vars
    /\ [][pc # "raised"]_vars
    /\ [](config.error_policy = STRICT
            => /\ BadPulled \subseteq {Len(pulled)}
               /\ stats.parse_errors = Cardinality(BadPulled)
               /\ (BadPulled # {} <=> pc = "raised")
               /\ (pc = "raised" => Untagged(events) = ref.wellformed.events))

C17_Witness ==
    /\ config.error_policy = STRICT
    /\ pc = "raised"
    /\ Len(pulled) = 3
    /\ Len(events) >= 2
    /\ stats.parse_errors = 1

\* C18: under the tolerant policy a malformed line does not end the iteration and
\* does not reach the assembler: the step that pulls it goes on with the loop and
\* changes neither the events nor the assembler; the events yielded, and the
\* assembler, are those of the same pulled lines without the malformed ones, and
\* parse_errors is the number of malformed lines pulled.
C18_TolerantSkips ==
    /\ [][config.error_policy = TOLERANT /\ PullsBad
            => /\ pc' = "loop"
               /\ events' = events
               /\ state' = state]_vars
    /\ [](config.error_policy = TOLERANT
            => /\ pc # "raised"
               /\ Untagged(events) = ref.wellformed.events
               /\ state = ref.wellformed.state
               /\ stats.parse_errors = Cardinality(BadPulled))

C18_Witness ==
    /\ config.error_policy = TOLERANT
    /\ \E i \in BadPulled, j \in 1..Len(events) :
        events[j].line > i /\ events[j].kind = "frame"

\* the step pulls a line whose packet the hand filter excludes
PullsExcluded ==
    /\ Len(pulled') = Len(pulled) + 1
    /\ ~pulled'[Len(pulled')].bad
    /\ Excluded(config, pulled'[Len(pulled')].side)

\* the side a one-sided hand filter admits
FilterSide == IF config.hand_filter = HandFilter_LEFT THEN LEFT ELSE RIGHT

\* C19: with hand_filter LEFT or RIGHT every yielded packet and frame has that
\* side; the step that pulls a packet of the other side adds one to
\* packets_filtered, yields nothing and leaves the assembler alone, so that the
\* events and the assembler are those of the same pulled lines without the
\* excluded ones; with hand_filter BOTH packets_filtered stays 0.
C19_HandFilter ==
    /\ [][PullsExcluded
            => /\ pc' = "loop"
               /\ events' = events
               /\ state' = state
               /\ stats'.packets_filtered = stats.packets_filtered + 1]_vars
    /\ [](/\ config.hand_filter # HandFilter_BOTH
             => \A j \in 1..Len(events) : events[j].event.side = FilterSide
          /\ stats.packets_filtered = Cardinality(ExcludedPulled)
          /\ config.hand_filter = HandFilter_BOTH => stats.packets_filtered = 0
          /\ Untagged(events) = ref.admitted.events
          /\ state = ref.admitted.state)

C19_Witness ==
    /\ config.hand_filter = HandFilter_LEFT
    /\ stats.packets_filtered >= 1
    /\ \E i \in ExcludedPulled, j \in 1..Len(events) :
        events[j].line > i /\ events[j].kind = "frame" /\ events[j].event.side = LEFT

\* the events that come from line n, in the order they were yielded
EventsOf(n) == SelectSeq(events, LAMBDA e : e.line = n)

\* the packet of pulled line n
PulledPacket(n) == PacketOf(pulled[n].side, pulled[n].kind, 1)

\* the generator has left the loop body of line n
Handled(n) == n < Len(pulled) \/ pc # "packet"

\* e is a frame of the side of line n
FrameOf(e, n) == e.kind = "frame" /\ e.event.side = pulled[n].side

\* C20: the events form one sequence in line order.  In the packets mode each
\* surviving line gives exactly its packet and there is no frame; in the frames
\* mode there are only frames, at most one per surviving line; in the both mode
\* each surviving line gives its packet and then, next to it, the frame it
\* triggers if any.  A line that does not survive gives nothing.
C20_OutputMode ==
    /\ \A j \in 1..(Len(events) - 1) : events[j].line <= events[j + 1].line
    /\ \A j \in 1..Len(events) : events[j].line \in Surviving
    /\ config.output = StreamOutput_PACKETS
         => \A n \in Surviving : EventsOf(n) = Tagged(<<PacketEvent(PulledPacket(n))>>, n)
    /\ config.output = StreamOutput_FRAMES
         => \A n \in Surviving :
               /\ Len(EventsOf(n)) <= 1
               /\ \A j \in 1..Len(EventsOf(n)) : FrameOf(EventsOf(n)[j], n)
    /\ config.output = StreamOutput_BOTH
         => \A n \in Surviving :
               /\ Len(EventsOf(n)) \in {1, 2}
               /\ ~Handled(n) => Len(EventsOf(n)) = 1
               /\ SubSeq(EventsOf(n), 1, 1) = Tagged(<<PacketEvent(PulledPacket(n))>>, n)
               /\ Len(EventsOf(n)) = 2 => FrameOf(EventsOf(n)[2], n)

C20_Witness ==
    /\ config.output = StreamOutput_BOTH
    /\ Len(pulled) = 3
    /\ Surviving = {1, 3}
    /\ Len(events) = 3
    /\ events[3].kind = "frame"

\* the events of one kind yielded since the last reset_stats
YieldedSince(kind) == {j \in (mark.events + 1)..Len(events) : events[j].kind = kind}

\* the counters agree with the lines pulled and the events yielded since the
\* last reset_stats
C21_Counted ==
    /\ stats.lines_received >= stats.dropped_lines
    /\ stats.lines_received = Len(pulled) - mark.pulled
    /\ stats.packets_emitted = Cardinality(YieldedSince("packet"))
    /\ stats.frames_emitted = Cardinality(YieldedSince("frame"))

C22_MaxEventsCap ==
    /\ ~IsNone(runner.max_events) => runner.invoked <= Val(runner.max_events)
    /\ ~IsNone(runner.max_events) /\ runner.phase \in {"iterating", "callback"}
         => runner.processed < Val(runner.max_events)
    /\ runner.phase = "returned"
         => /\ runner.returned = Some(runner.processed)
            /\ runner.processed = stats.callbacks_invoked
    /\ IsNone(runner.max_events) /\ runner.phase = "returned"
         => pc = "done" /\ runner.processed = Len(events)

\* the step is a call of the callback that raises
CallbackRaised == runner.phase = "callback" /\ runner'.phase = "raised"

\* what C23 says of a call of the callback that raises
C23_Stops ==
    /\ stats'.callback_errors = stats.callback_errors + 1
    /\ stats'.callbacks_invoked = stats.callbacks_invoked
    /\ runner'.processed = runner.processed
    /\ runner'.raised = IF runner.wrap_callback_exceptions
                        THEN "ClientCallbackError" ELSE runner'.thrown

\* C23 as stated: when the callback raises, callback_errors grows by one,
\* callbacks_invoked does not grow, no later event reaches the callback, and the
\* exception leaves run as ClientCallbackError if wrap_callback_exceptions is
\* set and as the original exception otherwise.
C23_CallbackRaisesAny ==
    /\ [][CallbackRaised => C23_Stops]_vars
    /\ [][runner.phase = "raised" => runner' = runner /\ events' = events]_vars

\* C23, amended: the same for a callback that raises an Exception; after any
\* raise no later event reaches the callback.
C23_CallbackRaises ==
    /\ [][CallbackRaised /\ runner'.thrown = "Exception" => C23_Stops]_vars
    /\ [][runner.phase = "raised" => runner' = runner /\ events' = events]_vars

C23_Witness ==
    /\ runner.phase = "raised"
    /\ runner.thrown = "Exception"
    /\ runner.wrap_callback_exceptions
    /\ runner.raised = "ClientCallbackError"
    /\ runner.processed >= 1
    /\ stats.callback_errors = 1

\* the arguments of the construction are ones C24 names as invalid
C24_Invalid ==
    \/ made.host = ""
    \/ made.port < 0 \/ made.port > 65535
    \/ made.timeout_s <= 0
    \/ made.reconnect_delay_s < 0

\* C24: constructing an HTSClientConfig raises ClientConfigurationError exactly
\* when host is empty, port is outside 0..65535, timeout_s <= 0 or
\* reconnect_delay_s < 0; then there is no configuration and no client, and
\* nothing raises the error once the client streams.
C24_ConfigValidated ==
    /\ [](made.done => (made.raised = "ClientConfigurationError" <=> C24_Invalid))
    /\ [](made.done /\ made.raised # "" => config = None /\ pc = "idle")
    /\ [](config # None => made.done /\ ~C24_Invalid)
    /\ [][made.done => made' = made]_vars

C24_Witness ==
    /\ made.done
    /\ made.port = 65535
    /\ made.reconnect_delay_s = 0
    /\ made.raised = ""
    /\ pc = "done"
    /\ Len(events) >= 1

\* the side holds a component at most and no marker, or both components and
\* the markers of their timestamps
MarkersFollow(side_state) ==
    \/ /\ IsNone(side_state.wrist) \/ IsNone(side_state.landmarks)
       /\ IsNone(side_state.last_emitted_wrist_recv_ts_ns)
       /\ IsNone(side_state.last_emitted_landmarks_recv_ts_ns)
    \/ /\ ~IsNone(side_state.wrist) /\ ~IsNone(side_state.landmarks)
       /\ ~IsNone(side_state.wrist_recv_ts_ns)
       /\ side_state.last_emitted_wrist_recv_ts_ns = side_state.wrist_recv_ts_ns
       /\ ~IsNone(side_state.landmarks_recv_ts_ns)
       /\ side_state.last_emitted_landmarks_recv_ts_ns = side_state.landmarks_recv_ts_ns

\* C35: after every push_packet, push_line and reset, each side either lacks a
\* component and has both last-emitted markers unset, or holds both components
\* and its markers equal the stored timestamps; and its next_sequence_id is the
\* number of frames emitted for it since construction or its last reset.
C35_MarkersFollow ==
    \A s \in HandSide :
        /\ MarkersFollow(state[s])
        /\ state[s].next_sequence_id = Len(frames[s])

\* a side has emitted two frames and then replaced a payload under an equal
\* timestamp, while the other side holds one component
C35_Witness ==
    \E s \in HandSide :
        /\ Len(frames[s]) = 2
        /\ call.op \in {"push_packet", "push_line"} /\ call.side = Some(s) /\ call.replaced
        /\ ret = None
        /\ ~IsNone(state[OtherSide(s)].wrist) /\ IsNone(state[OtherSide(s)].landmarks)

\* t is no earlier than the stored timestamp
NotBefore(stored, t) == IsNone(stored) \/ (~IsNone(t) /\ Val(t) >= Val(stored))

\* this step resets side s
Resets(s) == call'.op = "reset" /\ Covers(call'.side, s)

\* the stored timestamps of a side do not decrease in a step that is no reset of it
C36_StoredGrow ==
    \A s \in HandSide :
        ~Resets(s)
            => /\ NotBefore(state[s].wrist_recv_ts_ns, state'[s].wrist_recv_ts_ns)
               /\ NotBefore(state[s].landmarks_recv_ts_ns, state'[s].landmarks_recv_ts_ns)

\* a frame that follows a frame of its side, with no reset of the side between,
\* has no earlier timestamp, and another wrist or landmarks timestamp
C36_FramesGrow ==
    \A s \in HandSide :
        (prior[s] # None /\ prior'[s] # prior[s] /\ prior'[s] # None)
            => /\ Val(prior'[s]).wrist_recv_ts_ns >= Val(prior[s]).wrist_recv_ts_ns
               /\ Val(prior'[s]).landmarks_recv_ts_ns >= Val(prior[s]).landmarks_recv_ts_ns
               /\ Val(prior'[s]).recv_ts_ns >= Val(prior[s]).recv_ts_ns
               /\ \/ Val(prior'[s]).wrist_recv_ts_ns # Val(prior[s]).wrist_recv_ts_ns
                  \/ Val(prior'[s]).landmarks_recv_ts_ns # Val(prior[s]).landmarks_recv_ts_ns

\* C36: between two resets of a side its stored wrist and landmarks timestamps
\* never decrease, whatever is pushed; the frames of the side have
\* non-decreasing wrist_recv_ts_ns, landmarks_recv_ts_ns and recv_ts_ns, and two
\* consecutive frames differ in a component timestamp.
C36_Monotonic == [][C36_StoredGrow /\ C36_FramesGrow]_vars

\* a third frame of a side was just emitted, both its component timestamps the
\* latest a caller passes
C36_Witness ==
    \E s \in HandSide :
        /\ Len(frames[s]) > 2
        /\ ret # None /\ prior[s] = Some(Stamps(Val(ret)))
        /\ Val(ret).landmarks_recv_ts_ns = MaxTs
        /\ Val(ret).wrist_recv_ts_ns = MaxTs

----------------------------------------------------------------------------
(* Properties of a client over its lifetime *)

\* the sequence ids of the frames of side s among the events yielded
FrameIds(s) ==
    LET fs == SelectSeq(events, LAMBDA e : e.kind = "frame" /\ e.event.side = s)
    IN  [i \in 1..Len(fs) |-> fs[i].event.sequence_id]

\* a call of iter_events leaves the assembler and the counters as they are
C37_SameAssembler ==
    (pc \in {"idle", "done", "raised"} /\ pc' = "loop") => state' = state /\ stats' = stats

\* reset_stats zeroes the eight counters and changes nothing else
C37_ResetStatsOnly ==
    mark' # mark
        => /\ Cardinality(DOMAIN stats') = Cardinality(DOMAIN ClientStats)
           /\ \A k \in DOMAIN stats' : stats'[k] = 0
           /\ UNCHANGED <<state, include_wall_time, config, pc, pending, events, pulled, clock>>

\* C37: a client has one assembler for its lifetime: a later iter_events on the
\* same client, and reset_stats, leave the assembly state as it is, so that
\* the frames of a side are numbered 0, 1, 2, ... over all iterations;
\* reset_stats sets the eight counters to zero and changes nothing else.
C37_OneAssembler ==
    /\ [][C37_SameAssembler /\ C37_ResetStatsOnly]_vars
    /\ [](\A s \in HandSide : \A i \in 1..Len(FrameIds(s)) : FrameIds(s)[i] = i - 1)

\* under the strict policy a malformed second line ended the first iteration;
\* the third line, pulled by a second iteration after a reset_stats, completed
\* a frame with the component the first line had stored
C37_Witness ==
    /\ config.error_policy = STRICT
    /\ Len(pulled) = 3
    /\ pulled[2].bad
    /\ Entered(log) = 2
    /\ mark.pulled = 2
    /\ Len(events) > 0
    /\ events[Len(events)].kind = "frame"
    /\ events[Len(events)].line = 3
    /\ events[Len(events)].event.sequence_id = 0

\* the receiver of the iteration in progress is entered and not exited after
\* the first i entries of the log
InWith(i) ==
    \E j \in 1..i :
        /\ log[j] = "__enter__"
        /\ \A k \in (j + 1)..i : log[k] \notin {"__enter__", "__exit__"}

Exited(calls) == Len(SelectSeq(calls, LAMBDA c : c = "__exit__"))

\* C38: iter_events enters its receiver before it pulls the first line and
\* exits it exactly once when the iteration ends, by exhaustion or by a
\* ParseError under the strict policy; no line is pulled from an exited
\* receiver.
C38_WithReceiver ==
    /\ \A i \in 1..Len(log) :
          IF log[i] = "__enter__" THEN ~InWith(i - 1) ELSE InWith(i - 1)
    /\ pc \in {"loop", "packet"} => Exited(log) = Entered(log) - 1
    /\ pc \in {"done", "raised"} => Exited(log) = Entered(log) /\ log[Len(log)] = "__exit__"
    /\ pc = "idle" => log = <<>>

\* an iteration was ended by a ParseError after a line and the next by exhaustion
C38_Witness ==
    /\ pc = "done"
    /\ log = <<"__enter__", "line", "line", "__exit__", "__enter__", "line", "StopIteration",
               "__exit__">>

----------------------------------------------------------------------------
(* Properties of the transports *)

\* C25: once close() has been called on a receiver, for each of the three
\* receivers, a step of its iter_lines iterator yields no line and ends the
\* iteration: a next() that comes back while the last successful call among
\* open and close is a close, comes back with StopIteration.
C25_CloseEndsIteration ==
    (log.op = "next" /\ log.last = "close") => log.out = "StopIteration"

IsPrefix(a, b) == Len(a) <= Len(b) /\ a = SubSeq(b, 1, Len(a))

\* the lines of `lines` that connection c sent
LinesFrom(lines, c) ==
    SelectSeq(lines, LAMBDA l : l # <<>> /\ l[1] \in {Letters[2 * c - 1], Letters[2 * c]})

\* the lines a later connection may send, in the order it sends them
LaterLines(c) == << <<Letters[2 * c - 1]>>, <<Letters[2 * c]>> >>

\* a step of the iterator never came back with a timeout or a disconnect
C26_NeverSeen ==
    (rx.kind = TCP_CLIENT /\ log.op = "next")
        => log.out \notin {"TransportTimeoutError", "TransportDisconnectedError"}

\* the lines of each later connection are yielded in the order they were sent
C26_InOrder ==
    rx.kind = TCP_CLIENT
        => \A c \in 2..MaxConnections : IsPrefix(LinesFrom(log.returned, c), LaterLines(c))

\* C26: the iterator of TCPClientLineReceiver.iter_lines, while the caller does
\* not close the receiver, is never ended by a read timeout or a peer disconnect
\* and hands neither to the caller; once it has slept after a disconnect it goes
\* on attempting to reconnect, so no exception ends it; and the lines of a new
\* connection are yielded in the order sent.
C26_Reconnects ==
    (rx.kind = TCP_CLIENT /\ ~log.closed)
        => /\ rx.it # "ended"
           /\ C26_NeverSeen
           /\ log.sleeps > 0 => rx.it # "raised"
           /\ C26_InOrder

\* the lines the caller of a TCP server has been given or will be given by the
\* next calls without a read
Delivered == log.returned \o rx.pending_lines

\* the newline-terminated lines shorter than max_line_bytes read from client c
ShortLines(c) ==
    SelectSeq(CompleteLines(log.received[c]), LAMBDA l : Len(l) < max_line_bytes)

\* a turn of recv_line read bytes from client c and dropped it
DroppedForSize(c) ==
    /\ c \in rx.clients /\ c \notin rx'.clients /\ rx'.socket
    /\ log'.received[c] # log.received[c]

\* C28: a TCP server that its caller has not closed drops a client for its size
\* only when the bytes read from it end with an unterminated line of at least
\* max_line_bytes bytes; and every newline-terminated line shorter than
\* max_line_bytes read from a client is delivered by recv_line, however the
\* bytes were chunked.
C28_LineBound ==
    /\ [][\A c \in ClientIds :
            (rx.kind = TCP_SERVER /\ DroppedForSize(c))
                => Len(Remainder(log'.received[c])) >= max_line_bytes]_vars
    /\ [](rx.kind = TCP_SERVER /\ ~log.closed
            => \A c \in ClientIds : \A i \in 1..Len(ShortLines(c)) :
                  \E j \in 1..Len(Delivered) : Delivered[j] = ShortLines(c)[i])

\* recv_line, called on a TCP server, came back with TransportDisconnectedError
Disconnected ==
    /\ rx.kind = TCP_SERVER
    /\ log.op = "recv_line" /\ log.out = "TransportDisconnectedError"

\* this step is the turn of a recv_line call on a TCP server that raises
\* TransportDisconnectedError
Disconnects ==
    /\ rx.kind = TCP_SERVER
    /\ rx.busy = "recv_line" /\ rx'.busy = ""
    /\ log'.out = "TransportDisconnectedError"

\* every terminated line read from the clients was returned, in order, when
\* the error is raised
C27_LinesFirst ==
    (Disconnected /\ ~log.closed)
        => \A c \in ClientIds : LinesFrom(log.returned, c) = CompleteLines(log.received[c])

\* the error is raised only in a turn in which a client went, and leaves no
\* pending line and no client; the receiver stays open
C27_OnlyWhenAlone ==
    [][Disconnects
        => /\ \E c \in ClientIds : c \in rx.clients /\ c \notin rx'.clients
           /\ rx'.pending_lines = <<>>
           /\ rx'.clients = {}
           /\ rx'.socket]_vars

\* C27: a TCP server receiver returns every newline-terminated line read from
\* its clients, in order, before recv_line raises TransportDisconnectedError;
\* the error is raised only when a client disconnected during the call, no
\* pending line remains and no client is connected; and the receiver is open
\* after the error.
C27_Recovers == []C27_LinesFirst /\ C27_OnlyWhenAlone

\* this step is a call of `op` that came back at once
Calls(op) == rx.busy = "" /\ rx'.busy = "" /\ log'.op = op /\ log' # log

\* recv_line on a receiver that is not open raises TransportClosedError
C29_ClosedRaises ==
    (~rx.socket /\ (Calls("recv_line") \/ rx'.busy = "recv_line"))
        => log'.out = "TransportClosedError" /\ rx' = rx

\* open() on an open receiver raises RuntimeError and leaves the socket and its
\* connection as they are
C29_OpenTwice ==
    (rx.socket /\ Calls("open")) => log'.out = "RuntimeError" /\ rx' = rx /\ net' = net

\* close() on a closed receiver changes nothing
C29_CloseTwice ==
    (~rx.socket /\ Calls("close")) => rx' = rx /\ net' = net

\* C29: for the three receivers, recv_line on a receiver that is not open
\* raises TransportClosedError; open() on an open receiver raises RuntimeError
\* and leaves its socket in place; close() on a closed receiver is a no-op; and
\* after open and close calls only, the receiver is open exactly when the last
\* of them that succeeded was an open.
C29_Lifecycle ==
    /\ [][C29_ClosedRaises /\ C29_OpenTwice /\ C29_CloseTwice]_vars
    /\ [](~log.read => (rx.socket <=> log.last = "open"))

\* open() was refused on a receiver that was closed and opened again
C29_Witness ==
    /\ ~log.read /\ log.closed
    /\ log.op = "open" /\ log.out = "RuntimeError"
    /\ rx.socket

\* C33: recv_line of a TCP client never returns a line of max_line_bytes bytes
\* or more, however the bytes were chunked: every line it gave is shorter.
C33_LinesAreShort ==
    rx.kind = TCP_CLIENT
        => \A i \in 1..Len(log.returned) : Len(log.returned[i]) < max_line_bytes

\* the lines of the datagrams, in the order of the datagrams
RECURSIVE LinesOf(_)
LinesOf(datagrams) ==
    IF datagrams = <<>> THEN <<>>
    ELSE StrippedLines(datagrams[1]) \o LinesOf(Tail(datagrams))

\* every non-empty line of the datagrams read was returned or is queued, once
\* and in order, while the receiver was not closed
C34_OnceInOrder ==
    (rx.kind = UDP /\ ~log.closed) => log.returned \o rx.pending_lines = LinesOf(net.sent)

\* no blank line is returned, and a closed receiver has no queued line
C34_NoBlankNoneKept ==
    rx.kind = UDP
        => /\ \A i \in 1..Len(log.returned) : \E j \in 1..Len(log.returned[i]) :
                 ~IsSpace(log.returned[i][j])
           /\ ~rx.socket => rx.pending_lines = <<>>

\* a datagram is read only when no line is queued; its first line is returned by
\* the call that read it and its other lines are queued
C34_FirstThenQueued ==
    (rx.kind = UDP /\ net'.sent # net.sent)
        => /\ rx.pending_lines = <<>>
           /\ StrippedLines(net'.sent[Len(net'.sent)]) # <<>>
                 => /\ log'.returned =
                          Append(log.returned, Head(StrippedLines(net'.sent[Len(net'.sent)])))
                    /\ rx'.pending_lines = Tail(StrippedLines(net'.sent[Len(net'.sent)]))

\* C34: a UDP receiver delivers the non-empty lines of every datagram it reads
\* exactly once and in order: the first is returned by the call that read the
\* datagram, the others are queued and returned before a later datagram is
\* read; blank lines are never returned; close() discards the queued lines.
C34_DatagramLines ==
    /\ [](C34_OnceInOrder /\ C34_NoBlankNoneKept)
    /\ [][C34_FirstThenQueued]_vars

\* two datagrams were read, the first with two lines, and all lines were returned
C34_Witness ==
    /\ rx.kind = UDP
    /\ Len(net.sent) = MaxDatagrams
    /\ Len(StrippedLines(net.sent[1])) > 1
    /\ log.returned = LinesOf(net.sent)
    /\ Len(log.returned) > Len(StrippedLines(net.sent[1]))

\* this step is a turn of recv_line of a TCP client that raises
\* TransportDisconnectedError
ClientDisconnects ==
    /\ rx.kind = TCP_CLIENT /\ rx.busy \in {"recv_line", "next"}
    /\ \E ev \in {TimeoutError} \cup Chunks(net.stream) :
          /\ TcpClientTurn(rx, ev).out = "TransportDisconnectedError"
          /\ rx' = After(rx.busy, TcpClientTurn(rx, ev))

Among(line, lines) == \E i \in 1..Len(lines) : lines[i] = line

\* every line a TCP client gave is a newline-terminated line of the stream of
\* one of its connections
C39_WholeLines ==
    rx.kind = TCP_CLIENT
        => \A i \in 1..Len(log.returned) :
              \E c \in 1..Len(net.sent) : Among(log.returned[i], CompleteLines(net.sent[c]))

\* C39: whenever recv_line of a TCP client raises TransportDisconnectedError the
\* receiver has closed its socket and emptied its buffer, and no remainder of
\* an over-long line is delivered as a line afterwards.
C39_DisconnectCloses ==
    /\ [][ClientDisconnects => ~rx'.socket /\ rx'.buffer = <<>>]_vars
    /\ []C39_WholeLines

\* the keys of _client_buffers are the connected client sockets
C40_OneBufferPerClient ==
    rx.kind = TCP_SERVER => {c \in ClientIds : ~IsNone(rx.buffers[c])} = rx.clients

\* a closed TCP client has an empty buffer
C40_ClosedIsEmpty == (rx.kind = TCP_CLIENT /\ ~rx.socket) => rx.buffer = <<>>

\* a line that starts with the bytes of a connection is a newline-terminated
\* line of that connection
C40_LinesOfOneConnection ==
    /\ rx.kind = TCP_SERVER
          => \A c \in ClientIds : \A i \in 1..Len(LinesFrom(Delivered, c)) :
                Among(LinesFrom(Delivered, c)[i], CompleteLines(log.received[c]))
    /\ rx.kind = TCP_CLIENT
          => \A c \in 1..Len(net.sent) : \A i \in 1..Len(LinesFrom(log.returned, c)) :
                Among(LinesFrom(log.returned, c)[i], CompleteLines(net.sent[c]))

\* C40: bytes that no newline ended before their connection ended are never
\* delivered as a line and never prepended to the bytes of another connection:
\* the TCP server keeps one buffer per connected client, the TCP client has no
\* buffered byte once closed.
C40_NoBytesLeak == C40_OneBufferPerClient /\ C40_ClosedIsEmpty /\ C40_LinesOfOneConnection

\* a connection ended after bytes without a newline and a later one gave a line
C40_Witness ==
    /\ rx.kind = TCP_CLIENT
    /\ Len(net.sent) > 1
    /\ Remainder(net.sent[1]) # <<>>
    /\ LinesFrom(log.returned, 1) = CompleteLines(net.sent[1])
    /\ LinesFrom(log.returned, Len(net.sent)) # <<>>

\* a client of a TCP server went after bytes without a newline and another
\* client gave a line
C40_ServerCase ==
    /\ rx.kind = TCP_SERVER
    /\ \E c, d \in ClientIds :
          /\ c # d
          /\ Remainder(log.received[c]) # <<>>
          /\ c \notin rx.clients
          /\ d \in rx.clients
          /\ LinesFrom(log.returned, d) # <<>>

----------------------------------------------------------------------------
(* Properties of the dictionaries *)

FrameKeys ==
    {"side", "frame_id", "wrist", "landmarks", "sequence_id", "recv_ts_ns",
     "recv_time_unix_ns", "source_ts_ns", "wrist_recv_ts_ns", "landmarks_recv_ts_ns"}

\* C30: for every WristPose, HandLandmarks and HandFrame value v, frames with
\* recv_time_unix_ns or source_ts_ns None included, from_dict(to_dict(v)) == v;
\* and the keys of the to_dict of a frame are exactly the ten field names.
C30_RoundTrip ==
    /\ trip.back # None => ValueEq(trip.class, Val(trip.back), Val(trip.v))
    /\ (trip.class = "HandFrame" /\ trip.d # None) => DOMAIN Val(trip.d) = FrameKeys

\* a frame with nan coordinates and without wall-clock and source timestamps
\* came back from its dictionary
C30_Witness ==
    /\ trip.class = "HandFrame" /\ trip.back # None
    /\ Val(trip.v).recv_time_unix_ns = None /\ Val(trip.v).source_ts_ns = None
    /\ Val(trip.v).wrist.x.value = NaN
    /\ Val(trip.back).recv_time_unix_ns = None

----------------------------------------------------------------------------
(* Properties of the conversions *)

Metadata ==
    {"side", "frame_id", "sequence_id", "recv_ts_ns", "recv_time_unix_ns", "source_ts_ns",
     "wrist_recv_ts_ns", "landmarks_recv_ts_ns"}

\* position q is position p with its Y turned
Flipped(p, q) == q[1] = p[1] /\ q[2] = Neg(p[2]) /\ q[3] = p[3]

\* C31: the frame convert_hand_frame_unity_left_to_right gives has the side,
\* frame_id, sequence_id and the five timestamps of its input, as many landmark
\* points in the same order, and the wrist position and every landmark mapped
\* (x, y, z) -> (x, -y, z).
C31_OnlyGeometry ==
    conv # None
        => /\ \A k \in Metadata : Val(conv).converted[k] = Val(conv).frame[k]
           /\ Flipped(Position3(Val(conv).frame.wrist), Position3(Val(conv).converted.wrist))
           /\ Len(Val(conv).converted.landmarks.points) = Len(Val(conv).frame.landmarks.points)
           /\ \A i \in 1..Len(Val(conv).frame.landmarks.points) :
                 Flipped(Val(conv).frame.landmarks.points[i],
                         Val(conv).converted.landmarks.points[i])

\* a frame of 21 landmarks with a negative Y and no wall-clock time was converted
C31_Witness ==
    /\ conv # None
    /\ Len(Val(conv).frame.landmarks.points) = LANDMARK_COUNT
    /\ Val(conv).frame.wrist.y = Num(-5)
    /\ Val(conv).converted.wrist.y = Num(5)
    /\ Val(conv).frame.recv_time_unix_ns = None

\* C32: with visualization_frame = FLU every point is logged in the FLU basis
\* of unity_right_to_flu_position, (x, y, z) as (z, -x, -y): each logged point
\* is unity_right_to_flu_position of the point _log_points was given.
C32_LoggedInFLU ==
    (viz # None /\ Val(viz)._config.visualization_frame = VisualizationFrame_FLU)
        => \A k \in 1..Len(Val(viz).logs) : \A i \in 1..Len(Val(viz).logs[k].given) :
              Val(viz).logs[k].points[i] =
                  unity_right_to_flu_position(Val(viz).logs[k].given[i][1],
                                              Val(viz).logs[k].given[i][2],
                                              Val(viz).logs[k].given[i][3])

\* the case of tests/test_visualization.py: the landmark (1, 2, 3) of a wrist at
\* (10, 20, 30), converted to right-handed and moved to the world, is logged
C32_Logged ==
    /\ viz # None
    /\ Val(viz)._config = RerunVisualizerConfig(TRUE, TRUE, VisualizationFrame_FLU)
    /\ Len(Val(viz).logs) = 1
    /\ Val(viz).logs[1].path = <<"hands", LEFT, "landmarks">>
    /\ Val(viz).logs[1].given = << <<Num(11), Num(-22), Num(33)>> >>

\* what the visualizer logs there: (x, z, -y)
C32_LoggedAsXZNegY ==
    C32_Logged => Val(viz).logs[1].points = << <<Num(11), Num(33), Num(22)>> >>

====
